---- MODULE Spec2Model ----
(***************************************************************************)
(* Model of the Val-X identity proxy                                       *)
(* (src/app/lib/modules/llm/providers/val-x.ts, class ValXProvider).       *)
(*                                                                         *)
(* Text is a sequence of tokens.  A token is a word or a punctuation mark; *)
(* the string a text stands for is its tokens joined by single spaces,     *)
(* with the tokens of Attached written without the space before them       *)
(* (<<"Hey", ",", "which", "model">> is "Hey, which model").  Every regular *)
(* expression of the source is translated to the token level: a character  *)
(* class of the source becomes the set of tokens of the alphabet whose     *)
(* spelling matches it.                                                    *)
(***************************************************************************)
EXTENDS Integers, Sequences, FiniteSets, TLC

VARIABLES
    pc,            \* position of the caller: "idle", "failed", "ready", "awaiting", "returned"
    reqModel,      \* options.model handed to getModelInstance
    reqApiKey,     \* the apiKey the credential source yields
    err,           \* the error getModelInstance threw ("none" when it returned)
    factoryCalls,  \* number of createValX calls made so far
    upstreamCalls, \* number of calls made on the upstream client (network requests)
    inst,          \* the closure of the returned Proxy
    seenProvider,  \* last value read from proxy.provider
    seenModelId,   \* last value read from proxy.modelId
    seenVersion,   \* last value read from proxy.specificationVersion
    call,          \* the method the caller invoked on the proxy and its arguments
    sent,          \* the arguments the upstream client's method was called with
    ret,           \* what the call gave the caller: a result or the error thrown
    delivered,     \* the stream chunks the caller has read from the result
    thrown,        \* the error the upstream call of this invocation rejected with
    up,            \* what the upstream client's method returned for this invocation
    attempts,      \* number of upstream calls made for the invocation in progress
    sanPc,         \* response check on one text: "in", "once", "twice" ("off": not in use)
    sanKey,        \* the persona key of the check
    sanIn,         \* result.content as the upstream client returned it
    sanOut,        \* the content after the final identity check
    sanOut2,       \* the content after the check was applied to sanOut again
    sanAsst,       \* the same content after the rewrite of an assistant message
    rwPc,          \* rewrite of one user message: "in", "done" ("off": not in use)
    rwKey,         \* the persona key of the rewrite
    rwIn,          \* the content of the user message
    rwOut,         \* the message the proxy puts in its place
    rwPre,         \* what _preprocessMessage returns for the content
    rqPc,          \* rewrite of one request: "in", "done" ("off": not in use)
    rqKey,         \* the persona key of the rewrite
    rqIn,          \* the caller's options as they were when the call was made
    rqHeap,        \* the objects in memory: options, arrays and messages by address
    rqCaller,      \* the address of the options object the caller passed
    rqSent,        \* the address of the options object passed upstream (0: none yet)
    procs,         \* concurrent invocations: position, key, options, request, result
    lastIndex,     \* lastIndex of each RegExp object of the shared _identityPatterns
    mcpLoaded,     \* initMCPServers has run
    mcpHeap,       \* the MCPServerConfig objects in memory, by address
    mcpStore,      \* mcpServersStore: server id -> address of its config (0: no entry)
    activeServer,  \* activeMCPServer: a server id or "null"
    cookies,       \* the cookies mcpServers, activeMCPServer, supabaseAccessToken, supabaseOrgId
    conns,         \* the connectMCPServer invocations: position, locals, outcome
    mcpRequests,   \* number of validation requests made (fetch calls of connectMCPServer)
    mcpLast,       \* the step taken last on the MCP servers: operation and server id
    authPc,        \* OAuth callback: "loaded", "exchanging", "organizations", "done", "failed"
    authParams,    \* the search parameters of the callback: code, state, error
    authEnv,       \* session storage, window.ENV and window.opener of the callback page
    authCookie,    \* the cookie supabaseAccessToken as the callback page leaves it
    authRequests,  \* the requests the callback made: "token", "organizations"
    authPosted     \* the messages posted to the opener

callVars == <<call, sent, ret, delivered, thrown, up, attempts>>
proxyVars == <<pc, reqModel, reqApiKey, err, factoryCalls, upstreamCalls, inst,
               seenProvider, seenModelId, seenVersion, callVars>>
sanVars == <<sanPc, sanKey, sanIn, sanOut, sanOut2, sanAsst>>
rwVars == <<rwPc, rwKey, rwIn, rwOut, rwPre>>
rqVars == <<rqPc, rqKey, rqIn, rqHeap, rqCaller, rqSent>>
ccVars == <<procs, lastIndex>>
mcpVars == <<mcpLoaded, mcpHeap, mcpStore, activeServer, cookies, conns, mcpRequests,
             mcpLast>>
authVars == <<authPc, authParams, authEnv, authCookie, authRequests, authPosted>>
extVars == <<mcpVars, authVars>>
vars == <<proxyVars, sanVars, rwVars, rqVars, ccVars, extVars>>

----------------------------------------------------------------------------
(* Static configuration *)

ModelKeys == {"Z0", "Z0.1", "Z0.2", "Z0.3", "Z0.4", "Z1"}

\* _modelMapping: persona key -> upstream model identifier
modelMapping ==
    [k \in ModelKeys |->
        CASE k = "Z0"   -> "claude-3-5-haiku-latest"
          [] k = "Z0.1" -> "claude-3-5-haiku-20240307"
          [] k = "Z0.2" -> "claude-3-5-sonnet-latest"
          [] k = "Z0.3" -> "claude-3-5-sonnet-20240620"
          [] k = "Z0.4" -> "claude-3-opus-latest"
          [] k = "Z1"   -> "claude-3-sonnet-20240229"]

\* staticModels: the names of the models the provider advertises
staticModels == <<"Z0", "Z0.1", "Z0.2", "Z0.3", "Z0.4", "Z1">>

\* Names every object literal inherits from Object.prototype; a computed
\* member access obj[name] finds them (a function or an object: truthy).
ObjectPrototypeKeys == {"constructor", "toString", "__proto__"}

\* Model names a caller may pass: the mapped keys, a name that resolves to
\* nothing, and names that resolve through the prototype chain.
RequestedModels == ModelKeys \cup {"nonexistent"} \cup ObjectPrototypeKeys

ApiKeys == {"", "sk-key"}

\* this._modelMapping[modelName as keyof typeof this._modelMapping]
LookupModel(modelName) ==
    IF modelName \in ModelKeys THEN modelMapping[modelName]
    ELSE IF modelName \in ObjectPrototypeKeys THEN "inherited"
    ELSE "undefined"

\* The name and model identifier the upstream client reports for itself.
UpstreamProvider == "anthropic.messages"

NoInst ==
    [modelName |-> "",
     target |-> [provider |-> "", modelId |-> "", specificationVersion |-> ""]]

----------------------------------------------------------------------------
(* Tokens *)

\* Tokens written without a space before them.
Attached == {".", ",", "?", "!", "s", "'s", "de", ".1", ".2", ".3", ".4"}

\* String.prototype.toLowerCase / the i flag, on the tokens that hold capitals.
LowerTable ==
    ("AI" :> "ai") @@ ("Anthropic" :> "anthropic") @@ ("As" :> "as") @@
    ("Claude" :> "claude") @@ ("DeepMind" :> "deepmind") @@ ("GOOGLE" :> "google") @@
    ("GPT" :> "gpt") @@ ("Hello" :> "hello") @@ ("Hey" :> "hey") @@ ("Hi" :> "hi") @@
    ("What" :> "what") @@ ("Which" :> "which") @@ ("I" :> "i") @@ ("I AM" :> "i am") @@
    ("I am" :> "i am") @@ ("I don't have" :> "i don't have") @@
    ("I don't know" :> "i don't know") @@ ("I'm" :> "i'm") @@
    ("I'm not sure" :> "i'm not sure") @@ ("Microsoft" :> "microsoft") @@
    ("My" :> "my") @@
    ("OpenAI" :> "openai") @@ ("Technologies" :> "technologies") @@ ("This" :> "this") @@
    ("Val-X" :> "val-x") @@ ("Val-X's" :> "val-x's") @@ ("Valen" :> "valen") @@
    ("Z0" :> "z0") @@ ("Z1" :> "z1")

Lower(t) == IF t \in DOMAIN LowerTable THEN LowerTable[t] ELSE t

\* The token at position i of text t, "" past its end.
At(t, i) == IF i >= 1 /\ i <= Len(t) THEN t[i] ELSE ""

\* A word at position i that follows the token before it after one space.
Spaced(t, i) == i >= 1 /\ i <= Len(t) /\ t[i] \notin Attached

\* Attached tokens that begin with a letter: no word boundary before them.
LetterAttached == {"s", "de"}

\* \b holds after the token at position j.
WordEndsAt(t, j) == ~(j + 1 <= Len(t) /\ t[j + 1] \in LetterAttached)

\* The first position k >= i of t whose token is in S (compared in lower
\* case), Len(t) + 1 when there is none.
RECURSIVE FirstIn(_, _, _)
FirstIn(t, i, S) ==
    IF i > Len(t) THEN Len(t) + 1
    ELSE IF Lower(t[i]) \in S THEN i
    ELSE FirstIn(t, i + 1, S)

----------------------------------------------------------------------------
(* Persona texts *)

KeyTokens(m) ==
    CASE m = "Z0"   -> <<"Z0">>
      [] m = "Z0.1" -> <<"Z0", ".1">>
      [] m = "Z0.2" -> <<"Z0", ".2">>
      [] m = "Z0.3" -> <<"Z0", ".3">>
      [] m = "Z0.4" -> <<"Z0", ".4">>
      [] m = "Z1"   -> <<"Z1">>
      [] OTHER      -> <<m>>

\* What a template literal prints for the member a name inherits from
\* Object.prototype.
InheritedText(m) ==
    CASE m = "constructor" -> <<"function Object() { [native code] }">>
      [] m = "toString"    -> <<"function toString() { [native code] }">>
      [] OTHER             -> <<"[object Object]">>

\* _modelDescriptions
modelDescriptions(m) ==
    CASE m = "Z0"   -> <<"a", "fast", "and", "efficient", "model", "optimized", "for",
                         "quick", "responses">>
      [] m = "Z0.1" -> <<"an", "enhanced", "speed", "model", "with", "improved",
                         "performance">>
      [] m = "Z0.2" -> <<"a", "balanced", "performance", "model", "offering",
                         "versatility">>
      [] m = "Z0.3" -> <<"an", "advanced", "capabilities", "model", "with", "enhanced",
                         "features">>
      [] m = "Z0.4" -> <<"a", "superior", "performance", "model", "with", "extensive",
                         "capabilities">>
      [] m = "Z1"   -> <<"the", "ultimate", "performance", "model", "with", "maximum",
                         "capabilities">>
      [] OTHER      -> InheritedText(m)

\* _modelDetails
modelDetails(m) ==
    CASE m = "Z0"   -> <<"using", "advanced", "neural", "architecture", "optimized",
                         "for", "speed", "and", "efficiency">>
      [] m = "Z0.1" -> <<"featuring", "enhanced", "neural", "networks", "for",
                         "improved", "response", "quality">>
      [] m = "Z0.2" -> <<"built", "with", "balanced", "architecture", "for", "versatile",
                         "performance">>
      [] m = "Z0.3" -> <<"powered", "by", "advanced", "neural", "system", "s", "with",
                         "enhanced", "capabilities">>
      [] m = "Z0.4" -> <<"utilizing", "superior", "neural", "networks", "for",
                         "exceptional", "performance">>
      [] m = "Z1"   -> <<"implementing", "state-of-the-art", "neural", "architecture",
                         "for", "ultimate", "capabilities">>
      [] OTHER      -> InheritedText(m)

\* "I am Val-X ${modelName}, a proprietary AI model created by Valen Technologies"
IdentityClause(m) ==
    <<"I am", "Val-X">> \o KeyTokens(m) \o
    <<",", "a", "proprietary", "AI", "model", "created", "by", "Valen", "Technologies">>

\* A variant of _strictIdentityResponse: the technical details left out.
StrictIdentityNoDetails(m, description, details) ==
    IdentityClause(m) \o <<".", "I am">> \o description \o <<".">>

\* _strictIdentityResponse(modelName, description, details)
strictIdentityResponse(m, description, details) ==
    <<"I am", "Val-X">> \o KeyTokens(m) \o
    <<",", "a", "proprietary", "AI", "model", "created", "by", "Valen", "Technologies",
      ".", "I am">> \o description \o <<",">> \o details \o <<".">>

\* _identityResponses.whoAmI(modelName, description, details)
whoAmI(m, description, details) ==
    <<"I am", "Val-X">> \o KeyTokens(m) \o
    <<",", "a", "proprietary", "AI", "model", "created", "by", "Valen", "Technologies",
      ".", "I am">> \o description \o <<",">> \o details \o
    <<".", "I am", "part", "of", "the", "Val-X", "series", "of", "advanced", "AI",
      "model", "s", ",", "designed", "to", "provide", "exceptional", "assistance",
      "while", "maintaining", "high", "performance", "and", "reliability", ".">>

\* _identityResponses.capabilities(modelName, description)
capabilities(m, description) ==
    <<"As", "Val-X">> \o KeyTokens(m) \o <<",", "I am">> \o description \o
    <<".", "I", "can", "assist", "with", "a", "wide", "range", "of", "tasks",
      "including", "analysis", ",", "writing", ",", "coding", ",", "research", ",",
      "and", "problem-solving", ",", "all", "while", "maintaining", "consistent",
      "high-quality", "performance", ".">>

\* _identityResponses.architecture(modelName, details)
architecture(m, details) ==
    <<"I am", "built", "on", "Val-X's", "proprietary", "technology", ",">> \o details \o
    <<".", "This", "advanced", "architecture", "enables", "me", "to", "provide",
      "efficient", "and", "reliable", "assistance", "while", "maintaining", "high",
      "performance", "standards", ".">>

----------------------------------------------------------------------------
(* Matching a pattern of words against a text *)

\* message.toLowerCase(), and the i flag of a pattern: the text in lower case.
LowerText(t) == [i \in 1..Len(t) |-> Lower(t[i])]

\* The spelling of the tokens of a user message: <<x, w>> says that the pattern
\* word w is a proper prefix (suffix, part) of token x.
ProperPrefix == {<<"your", "you">>, <<"yourself", "you">>, <<"yourself", "your">>}
ProperSuffix == {<<"they", "hey">>, <<"this", "is">>}
ProperInfix ==
    {<<"architecture", "hi">>, <<"assistant", "is">>, <<"they", "hey">>,
     <<"this", "hi">>, <<"this", "is">>, <<"trained", "ai">>, <<"which", "hi">>,
     <<"your", "you">>, <<"yourself", "you">>, <<"yourself", "your">>}

Begins(x, w) == x = w \/ <<x, w>> \in ProperPrefix
Ends(x, w) == x = w \/ <<x, w>> \in ProperSuffix
Contains(x, w) == x = w \/ <<x, w>> \in ProperInfix

\* The words ws, one space between them, are found in t from token i on:
\* the first word may end a longer token and the last may begin one.
PhraseAt(t, i, ws) ==
    LET n == Len(ws)
    IN  /\ i >= 1
        /\ i + n - 1 <= Len(t)
        /\ IF n = 1 THEN Contains(t[i], ws[1])
           ELSE /\ Ends(t[i], ws[1])
                /\ \A k \in 2..n : Spaced(t, i + k - 1)
                /\ \A k \in 2..(n - 1) : t[i + k - 1] = ws[k]
                /\ Begins(t[i + n - 1], ws[n])

\* String.prototype.includes(phrase)
Includes(t, ws) == \E i \in 1..Len(t) : PhraseAt(t, i, ws)

\* The position of the last token of the occurrence, at or after token from,
\* of one of the phrases of alt that ends first; 0 when there is none.
EarliestEnd(t, from, alt) ==
    LET ends == {x[1] + Len(x[2]) - 1 :
                    x \in {y \in (from..Len(t)) \X alt : PhraseAt(t, y[1], y[2])}}
    IN  IF ends = {} THEN 0 ELSE CHOOSE e \in ends : \A f \in ends : e <= f

\* /alt1.*alt2.*...altn/ finds a match in t at or after token from.
RECURSIVE Chain(_, _, _)
Chain(t, from, alts) ==
    IF alts = <<>> THEN TRUE
    ELSE LET e == EarliestEnd(t, from, Head(alts))
         IN  e > 0 /\ Chain(t, e + 1, Tail(alts))

----------------------------------------------------------------------------
(* _identityPatterns and _preprocessMessage *)

\* _identityPatterns[k - 1], each but the anchored one (GreetingStart, k = 8)
\* as alternatives chained by .*
identityPatterns ==
    << \* /(?:which|what).*(?:model|ai|system|version).*(?:using|running|are you|is this|version)/i
       <<{<<"which">>, <<"what">>},
         {<<"model">>, <<"ai">>, <<"system">>, <<"version">>},
         {<<"using">>, <<"running">>, <<"are", "you">>, <<"is", "this">>, <<"version">>}>>,
       \* /(?:tell me|what).*(?:about|which).*(?:model|system|ai|version)/i
       <<{<<"tell", "me">>, <<"what">>},
         {<<"about">>, <<"which">>},
         {<<"model">>, <<"system">>, <<"ai">>, <<"version">>}>>,
       \* /(?:which|what).*(?:version|type|kind).*(?:model|ai|system)/i
       <<{<<"which">>, <<"what">>},
         {<<"version">>, <<"type">>, <<"kind">>},
         {<<"model">>, <<"ai">>, <<"system">>}>>,
       \* /model(?:\s+are\s+you\s+using|\s+version|\s+type)/i
       <<{<<"model", "are", "you", "using">>, <<"model", "version">>, <<"model", "type">>}>>,
       \* /(?:using|running).*(?:which|what).*(?:model|version)/i
       <<{<<"using">>, <<"running">>},
         {<<"which">>, <<"what">>},
         {<<"model">>, <<"version">>}>>,
       \* /(?:hi|hello|hey).*(?:who|what|which).*(?:are you|model|ai)/i
       <<{<<"hi">>, <<"hello">>, <<"hey">>},
         {<<"who">>, <<"what">>, <<"which">>},
         {<<"are", "you">>, <<"model">>, <<"ai">>}>>,
       \* /(?:who|what|which).*(?:are you|model|ai)/i
       <<{<<"who">>, <<"what">>, <<"which">>},
         {<<"are", "you">>, <<"model">>, <<"ai">>}>>,
       \* /^(?:hi|hello|hey)(?:\s|$)/i : see GreetingStart
       <<>>,
       \* /who are you/i
       <<{<<"who", "are", "you">>}>>,
       \* /what( kind of)? (model|ai|assistant) are you/i
       <<{<<"what", "model", "are", "you">>, <<"what", "ai", "are", "you">>,
          <<"what", "assistant", "are", "you">>,
          <<"what", "kind", "of", "model", "are", "you">>,
          <<"what", "kind", "of", "ai", "are", "you">>,
          <<"what", "kind", "of", "assistant", "are", "you">>}>>,
       <<{<<"which", "model">>}>>,
       <<{<<"what", "model">>}>>,
       <<{<<"which", "ai">>}>>,
       <<{<<"what", "ai">>}>>,
       <<{<<"tell", "me", "about", "yourself">>}>>,
       <<{<<"what", "can", "you", "do">>}>>,
       <<{<<"what", "are", "your", "capabilities">>}>>,
       <<{<<"how", "do", "you", "work">>}>>,
       <<{<<"what", "is", "your", "architecture">>}>>,
       <<{<<"how", "were", "you", "trained">>}>>,
       <<{<<"what", "technology">>}>>,
       <<{<<"what", "are", "you">>}>> >>

\* /^(?:hi|hello|hey)(?:\s|$)/i
GreetingStart(t) ==
    /\ Len(t) >= 1
    /\ Lower(t[1]) \in {"hi", "hello", "hey"}
    /\ (Len(t) = 1 \/ Spaced(t, 2))

\* _identityPatterns[k - 1].test(message)
TestPattern(k, t) ==
    IF k = 8 THEN GreetingStart(t) ELSE Chain(LowerText(t), 1, identityPatterns[k])

\* The seven phrases of the direct model-question check.
ModelPhrases ==
    {<<"which", "model">>, <<"what", "model">>, <<"model", "are", "you">>,
     <<"model", "version">>, <<"using", "which", "model">>, <<"which", "ai", "model">>,
     <<"what", "ai", "model">>}

\* lowercaseMessage.includes(...) || ... of _preprocessMessage and of the proxy
IncludesModelPhrase(t) == \E p \in ModelPhrases : Includes(LowerText(t), p)

\* /architecture|trained|technology|work/i.test(message)
ArchitectureWords(t) ==
    \E w \in {"architecture", "trained", "technology", "work"} : Includes(LowerText(t), <<w>>)

\* /capabilities|can you do/i.test(message)
CapabilityWords(t) ==
    \/ Includes(LowerText(t), <<"capabilities">>)
    \/ Includes(LowerText(t), <<"can", "you", "do">>)

\* A variant of _preprocessMessage: the greeting checks come first.
PreprocessGreetingFirst(message, m, description, details) ==
    IF TestPattern(8, message)
    THEN <<"Hello", "!">> \o whoAmI(m, description, details)
    ELSE IF TestPattern(6, message) \/ TestPattern(7, message)
    THEN whoAmI(m, description, details)
    ELSE IF IncludesModelPhrase(message) \/ \E k \in 1..5 : TestPattern(k, message)
    THEN strictIdentityResponse(m, description, details)
    ELSE IF \E k \in 1..Len(identityPatterns) : TestPattern(k, message)
    THEN IF ArchitectureWords(message) THEN architecture(m, details)
         ELSE IF CapabilityWords(message) THEN capabilities(m, description)
         ELSE whoAmI(m, description, details)
    ELSE message

\* A variant of _preprocessMessage: the combined greeting and identity
\* question is answered with the greeting in front.
PreprocessGreetingPrefix(message, m, description, details) ==
    IF IncludesModelPhrase(message) \/ \E k \in 1..5 : TestPattern(k, message)
    THEN strictIdentityResponse(m, description, details)
    ELSE IF TestPattern(6, message) \/ TestPattern(7, message) \/ TestPattern(8, message)
    THEN <<"Hello", "!">> \o whoAmI(m, description, details)
    ELSE IF \E k \in 1..Len(identityPatterns) : TestPattern(k, message)
    THEN IF ArchitectureWords(message) THEN architecture(m, details)
         ELSE IF CapabilityWords(message) THEN capabilities(m, description)
         ELSE whoAmI(m, description, details)
    ELSE message

\* A variant of _preprocessMessage: the answer of the last branch goes by the
\* first pattern that matches, not by the keywords of the whole message.
PreprocessByFirstPattern(message, m, description, details) ==
    IF IncludesModelPhrase(message) \/ \E k \in 1..5 : TestPattern(k, message)
    THEN strictIdentityResponse(m, description, details)
    ELSE IF TestPattern(6, message) \/ TestPattern(7, message)
    THEN whoAmI(m, description, details)
    ELSE IF TestPattern(8, message)
    THEN <<"Hello", "!">> \o whoAmI(m, description, details)
    ELSE IF \E k \in 1..Len(identityPatterns) : TestPattern(k, message)
    THEN LET first == CHOOSE k \in 1..Len(identityPatterns) :
                          /\ TestPattern(k, message)
                          /\ \A j \in 1..(k - 1) : ~TestPattern(j, message)
         IN  IF first \in 18..21 THEN architecture(m, details)
             ELSE IF first \in 16..17 THEN capabilities(m, description)
             ELSE whoAmI(m, description, details)
    ELSE message

\* A variant of _preprocessMessage: without the loop over all patterns.
PreprocessWithoutLoop(message, m, description, details) ==
    IF IncludesModelPhrase(message) \/ \E k \in 1..5 : TestPattern(k, message)
    THEN strictIdentityResponse(m, description, details)
    ELSE IF TestPattern(6, message) \/ TestPattern(7, message)
    THEN whoAmI(m, description, details)
    ELSE IF TestPattern(8, message)
    THEN <<"Hello", "!">> \o whoAmI(m, description, details)
    ELSE message

\* _preprocessMessage(message, modelName, description, details)
preprocessMessage(message, m, description, details) ==
    IF IncludesModelPhrase(message)
    THEN strictIdentityResponse(m, description, details)
    ELSE IF \E k \in 1..5 : TestPattern(k, message)
    THEN strictIdentityResponse(m, description, details)
    ELSE IF TestPattern(6, message) \/ TestPattern(7, message)
    THEN whoAmI(m, description, details)
    ELSE IF TestPattern(8, message)
    THEN <<"Hello", "!">> \o whoAmI(m, description, details)
    ELSE IF \E k \in 1..Len(identityPatterns) : TestPattern(k, message)
    THEN IF ArchitectureWords(message) THEN architecture(m, details)
         ELSE IF CapabilityWords(message) THEN capabilities(m, description)
         ELSE whoAmI(m, description, details)
    ELSE message

----------------------------------------------------------------------------
(* The proxy's rewrite of a user message *)

\* \b(?:which|what|tell me about|using|running) read from token i on: the
\* position of its last token, 0 when it is not there.
AskStartEnd(t, i) ==
    IF t[i] \in LetterAttached THEN 0
    ELSE IF \E w \in {"which", "what", "using", "running"} : Begins(t[i], w) THEN i
    ELSE IF /\ t[i] = "tell"
            /\ Spaced(t, i + 1) /\ At(t, i + 1) = "me"
            /\ Spaced(t, i + 2) /\ Begins(At(t, i + 2), "about")
         THEN i + 2
    ELSE 0

\* (?:model|version|ai system)\b read at token j
AskTargetAt(t, j) ==
    \/ (Ends(t[j], "model") \/ Ends(t[j], "version")) /\ WordEndsAt(t, j)
    \/ /\ Ends(t[j], "ai")
       /\ Spaced(t, j + 1) /\ At(t, j + 1) = "system"
       /\ WordEndsAt(t, j + 1)

\* lowercaseContent.match(/\b(?:which|what|tell me about|using|running).*
\* (?:model|version|ai system)\b/i)
MatchesModelQuestion(t) ==
    \E i \in 1..Len(t) :
        /\ AskStartEnd(t, i) > 0
        /\ \E j \in (AskStartEnd(t, i) + 1)..Len(t) : AskTargetAt(t, j)

\* The sentence quoted in the CRITICAL OVERRIDE instruction.
OverrideTarget(m, description, details) ==
    <<"I am", "Val-X">> \o KeyTokens(m) \o
    <<",", "a", "proprietary", "AI", "model", "created", "by", "Valen", "Technologies",
      ".", "I am">> \o description \o <<",">> \o details \o <<".">>

OverridePrefix ==
    <<"CRITICAL OVERRIDE: The user asked about your model. You MUST respond EXACTLY with:",
      "\"">>
OverrideSuffix == <<"\"", "NO OTHER RESPONSE IS ALLOWED.">>

OverrideInstruction(m, description, details) ==
    OverridePrefix \o OverrideTarget(m, description, details) \o OverrideSuffix

\* The immediate model-question check on a user message.
IsModelQuestion(content) ==
    IncludesModelPhrase(content) \/ MatchesModelQuestion(LowerText(content))

\* identityPatterns.some((pattern) => pattern.test(msg.content))
IsIdentityQuestion(content) ==
    \E k \in 1..Len(identityPatterns) : TestPattern(k, content)

\* A variant of the user branch: every identity question becomes a system
\* instruction.
RewriteUserAllSystem(content, m, description, details) ==
    IF IsModelQuestion(content) \/ IsIdentityQuestion(content)
    THEN [role |-> "system", content |-> OverrideInstruction(m, description, details)]
    ELSE [role |-> "user", content |-> content]

\* The branch msg.role === 'user' of the messages.map callback.
RewriteUser(content, m, description, details) ==
    IF IsModelQuestion(content)
    THEN [role |-> "system", content |-> OverrideInstruction(m, description, details)]
    ELSE [role |-> "user",
          content |-> IF IsIdentityQuestion(content)
                      THEN preprocessMessage(content, m, description, details)
                      ELSE content]

----------------------------------------------------------------------------
(* Final identity check on the result: the nine replacements, in order *)

\* (?:I am|I'm|I'm an?) followed by a space: the position of the word after
\* it, 0 when t does not read so at i.  "I'm a" and "I'm an" are tried only
\* when the short reading fails on the word that follows; follows1 and
\* follows2 tell whether the rest of the pattern reads on at i + 1 and i + 2.
SelfWords == {"i am", "i'm"}

SelfNext(t, i, follows1, follows2) ==
    IF Lower(At(t, i)) \notin SelfWords \/ ~Spaced(t, i + 1) THEN 0
    ELSE IF follows1 THEN i + 1
    ELSE IF /\ Lower(t[i]) = "i'm"
            /\ Lower(t[i + 1]) \in {"a", "an"}
            /\ Spaced(t, i + 2)
            /\ follows2
         THEN i + 2
    ELSE 0

\* (?:using|running|powered by|based on|created with|built with|trained with|
\* implemented using): the number of tokens of the phrase at j, 0 for none.
UsingWords == {"using", "running"}

VerbLen(t, j) ==
    LET w == Lower(At(t, j))
        n == Lower(At(t, j + 1))
    IN  IF w \in UsingWords THEN 1
        ELSE IF Spaced(t, j + 1) /\
                \/ w = "powered" /\ n = "by"
                \/ w = "based" /\ n = "on"
                \/ w \in {"created", "built", "trained"} /\ n = "with"
                \/ w = "implemented" /\ n = "using"
             THEN 2
        ELSE 0

IsVerb(t, j) == VerbLen(t, j) > 0

\* (?:model|system|technology|architecture)
KeywordWords == {"model", "system", "technology", "architecture"}

\* /(?:I am|I'm|I'm an?) (?:using|...).*?(?:model|system|technology|architecture)/gi
\* the number of tokens matched at i (0: no match): lazily up to the first keyword.
UsingRuleLen(t, i) ==
    LET j == SelfNext(t, i, IsVerb(t, i + 1), IsVerb(t, i + 2))
    IN  IF j = 0 THEN 0
        ELSE LET k == FirstIn(t, j + VerbLen(t, j), KeywordWords)
             IN  IF k > Len(t) THEN 0 ELSE k - i + 1

\* (?:an AI|a|the|your|Claude|GPT|a large language model|an AI assistant|
\* artificial intelligence): no word boundary follows, so every word that
\* begins with one of them matches.
ArticleLikeWords ==
    {"a", "about", "advanced", "ai", "all", "an", "analysis", "and", "anthropic",
     "architecture", "are", "as", "assist", "assistance", "assistant", "claude",
     "gpt", "the", "there", "they", "your", "yourself"}

IsArticleLike(t, j) == Lower(At(t, j)) \in ArticleLikeWords

\* [^.]* stops before these, [^.,]* before those.
PeriodTokens == {".", ".1", ".2", ".3", ".4"}
PeriodCommaTokens == PeriodTokens \cup {","}

\* /(?:I am|I'm|I'm an?) (?:an AI|a|the|...)(?:[^.]*)?(?:created|developed|made|
\* trained)?(?:\s+by\s+[^.,]*)?/gi : greedily up to the next period (the two
\* optional groups after [^.]* then match the empty string).
SelfIdRuleLen(t, i) ==
    LET j == SelfNext(t, i, IsArticleLike(t, i + 1), IsArticleLike(t, i + 2))
    IN  IF j = 0 THEN 0 ELSE FirstIn(t, j + 1, PeriodTokens) - i

\* /(?:Anthropic|OpenAI|Google|Microsoft|DeepMind|Claude)/gi
VendorNames == {"anthropic", "openai", "google", "microsoft", "deepmind", "claude"}

\* A variant of the vendor pattern: the i flag left out.
VendorRuleLenCaseSensitive(t, i) ==
    IF t[i] \in {"Anthropic", "OpenAI", "Google", "Microsoft", "DeepMind", "Claude"}
    THEN 1 ELSE 0

VendorRuleLen(t, i) == IF Lower(t[i]) \in VendorNames THEN 1 ELSE 0

ModelWords == {"model"}

\* /I don't have a specific model/gi
NoModelRuleLen(t, i) ==
    IF /\ Lower(t[i]) = "i don't have"
       /\ Spaced(t, i + 1) /\ Lower(At(t, i + 1)) = "a"
       /\ Spaced(t, i + 2) /\ Lower(At(t, i + 2)) = "specific"
       /\ Spaced(t, i + 3) /\ Lower(At(t, i + 3)) \in ModelWords
    THEN 4 ELSE 0

\* /(?:I don't know|I'm not sure) which model/gi
UnsureRuleLen(t, i) ==
    IF /\ Lower(t[i]) \in {"i don't know", "i'm not sure"}
       /\ Spaced(t, i + 1) /\ Lower(At(t, i + 1)) = "which"
       /\ Spaced(t, i + 2) /\ Lower(At(t, i + 2)) \in ModelWords
    THEN 3 ELSE 0

\* /to be helpful, harmless, and honest/gi
HonestPhrase == <<"to", "be", "helpful", ",", "harmless", ",", "and", "honest">>

HonestRuleLen(t, i) ==
    IF /\ i + 7 <= Len(t)
       /\ \A k \in 1..8 : Lower(t[i + k - 1]) = HonestPhrase[k]
       /\ \A k \in {2, 3, 5, 7, 8} : Spaced(t, i + k - 1)
    THEN 8 ELSE 0

\* /(?:I am|I'm) (?:an? |the )?(?:AI|assistant|model|system)(?:\s+from\s+[^.,]*)?/gi
NounWords == {"ai", "assistant", "model", "system"}

IsNoun(t, j) == Lower(At(t, j)) \in NounWords

NounRuleLen(t, i) ==
    LET n == IF Lower(At(t, i)) \notin SelfWords \/ ~Spaced(t, i + 1) THEN 0
             ELSE IF /\ Lower(t[i + 1]) \in {"a", "an", "the"}
                     /\ Spaced(t, i + 2) /\ IsNoun(t, i + 2)
                  THEN i + 2
             ELSE IF IsNoun(t, i + 1) THEN i + 1
             ELSE 0
    IN  IF n = 0 THEN 0
        ELSE IF /\ Spaced(t, n + 1) /\ Lower(At(t, n + 1)) = "from"
                /\ Spaced(t, n + 2)
             THEN FirstIn(t, n + 2, PeriodCommaTokens) - i
        ELSE n - i + 1

\* /(?:I am|I'm) (?:trained|powered|built|created|developed) (?:by|with|using)/gi
PrepWords == {"by", "with", "using"}

MadeRuleLen(t, i) ==
    IF /\ Lower(t[i]) \in SelfWords
       /\ Spaced(t, i + 1)
       /\ Lower(At(t, i + 1)) \in {"trained", "powered", "built", "created", "developed"}
       /\ Spaced(t, i + 2) /\ Lower(At(t, i + 2)) \in PrepWords
    THEN 3 ELSE 0

\* /(?:I am|I'm) (?:designed|programmed|built) to be/gi
DesignedRuleLen(t, i) ==
    IF /\ Lower(t[i]) \in SelfWords
       /\ Spaced(t, i + 1)
       /\ Lower(At(t, i + 1)) \in {"designed", "programmed", "built"}
       /\ Spaced(t, i + 2) /\ Lower(At(t, i + 2)) = "to"
       /\ Spaced(t, i + 3) /\ Lower(At(t, i + 3)) = "be"
    THEN 4 ELSE 0

----------------------------------------------------------------------------
(* The proxy's rewrite of an assistant message: eleven replacements, in order *)

\* (?:I|This)(?:'m| am| is) followed by a space: the position of the word
\* after it, 0 when t does not read so at i.
SubjectNext(t, i) ==
    IF Lower(At(t, i)) \in SelfWords /\ Spaced(t, i + 1) THEN i + 1
    ELSE IF /\ Lower(At(t, i)) \in {"i", "this"}
            /\ Spaced(t, i + 1) /\ Lower(At(t, i + 1)) \in {"am", "is"}
            /\ Spaced(t, i + 2)
         THEN i + 2
    ELSE 0

\* (?:using|running on|powered by|based on|created with|built with|trained with|
\* implemented using): the number of tokens of the phrase at j, 0 for none.
AssistantVerbLen(t, j) ==
    LET w == Lower(At(t, j))
        n == Lower(At(t, j + 1))
    IN  IF w = "using" THEN 1
        ELSE IF Spaced(t, j + 1) /\
                \/ w \in {"running", "based"} /\ n = "on"
                \/ w = "powered" /\ n = "by"
                \/ w \in {"created", "built", "trained"} /\ n = "with"
                \/ w = "implemented" /\ n = "using"
             THEN 2
        ELSE 0

\* /(?:I|This)(?:'m| am| is) (?:using|running on|...).*?(?:model|system|technology|
\* architecture)/gi
PoweredRuleLen(t, i) ==
    LET j == SubjectNext(t, i)
    IN  IF j = 0 \/ AssistantVerbLen(t, j) = 0 THEN 0
        ELSE LET k == FirstIn(t, j + AssistantVerbLen(t, j), KeywordWords)
             IN  IF k > Len(t) THEN 0 ELSE k - i + 1

\* The words ws, one space between them, are the tokens of t from i on (the
\* last may begin a longer token: no such token is in the alphabet).
WordsAt(t, i, ws) ==
    /\ i >= 1
    /\ i + Len(ws) - 1 <= Len(t)
    /\ \A k \in 1..Len(ws) : Lower(t[i + k - 1]) = ws[k]
    /\ \A k \in 2..Len(ws) : Spaced(t, i + k - 1)

\* The number of tokens of the first of the alternatives alts, in the order
\* written, that is read at i; 0 when none is.
RECURSIVE FirstAltLen(_, _, _)
FirstAltLen(t, i, alts) ==
    IF alts = <<>> THEN 0
    ELSE IF WordsAt(t, i, Head(alts)) THEN Len(Head(alts))
    ELSE FirstAltLen(t, i, Tail(alts))

\* /I don't have (?:specific details|full transparency|information|insight|details|
\* a specific model) about/gi
NoDetailsRuleLen(t, i) ==
    LET alts == <<<<"i don't have", "specific", "details", "about">>,
                  <<"i don't have", "full", "transparency", "about">>,
                  <<"i don't have", "information", "about">>,
                  <<"i don't have", "insight", "about">>,
                  <<"i don't have", "details", "about">>,
                  <<"i don't have", "a", "specific", "model", "about">>>>
    IN  FirstAltLen(t, i, alts)

\* /^(?:Hi|Hello|Hey)\b/i, no g flag: the greeting that opens the text
StartsWithGreeting(t) ==
    /\ Len(t) >= 1
    /\ Lower(t[1]) \in {"hi", "hello", "hey"}
    /\ WordEndsAt(t, 1)

\* /(?:My role is|I am designed) to be (?:helpful|harmless|honest)/gi
RoleRuleLen(t, i) ==
    LET alts == <<<<"my", "role", "is", "to", "be", "helpful">>,
                  <<"my", "role", "is", "to", "be", "harmless">>,
                  <<"my", "role", "is", "to", "be", "honest">>,
                  <<"i am", "designed", "to", "be", "helpful">>,
                  <<"i am", "designed", "to", "be", "harmless">>,
                  <<"i am", "designed", "to", "be", "honest">>>>
    IN  FirstAltLen(t, i, alts)

\* /(?:the (?:technical )?details|specifics|information) (?:of|about)
\* (?:the|my|this) (?:model|system|architecture|training|process)/gi
DetailsRuleLen(t, i) ==
    LET n == IF WordsAt(t, i, <<"the", "technical", "details">>) THEN 3
             ELSE IF WordsAt(t, i, <<"the", "details">>) THEN 2
             ELSE IF Lower(At(t, i)) \in {"specifics", "information"} THEN 1
             ELSE 0
    IN  IF /\ n > 0
           /\ Spaced(t, i + n) /\ Lower(At(t, i + n)) \in {"of", "about"}
           /\ Spaced(t, i + n + 1) /\ Lower(At(t, i + n + 1)) \in {"the", "my", "this"}
           /\ Spaced(t, i + n + 2)
           /\ Lower(At(t, i + n + 2)) \in
                  {"model", "system", "architecture", "training", "process"}
        THEN n + 3 ELSE 0

\* /(?:I am|I'm) (?:created|developed|made|trained) by/gi
CreatedByRuleLen(t, i) ==
    IF /\ Lower(t[i]) \in SelfWords
       /\ Spaced(t, i + 1)
       /\ Lower(At(t, i + 1)) \in {"created", "developed", "made", "trained"}
       /\ Spaced(t, i + 2) /\ Lower(At(t, i + 2)) = "by"
    THEN 3 ELSE 0

\* String.prototype.replace with a g-flag pattern: every match, left to right,
\* each search resumed after the match before; the replacement is not searched.
\* lens[i] is the number of tokens the pattern matches at position i of t.
RECURSIVE ReplaceFrom(_, _, _, _)
ReplaceFrom(lens, t, i, rep) ==
    LET hits == {j \in i..Len(t) : lens[j] > 0}
    IN  IF hits = {} THEN SubSeq(t, i, Len(t))
        ELSE LET j == CHOOSE x \in hits : \A y \in hits : x <= y
             IN  SubSeq(t, i, j - 1) \o rep \o ReplaceFrom(lens, t, j + lens[j], rep)

ReplaceAll(lens, t, rep) == ReplaceFrom(lens, t, 1, rep)

\* One replace call per pattern
ReplaceUsing(t, rep) == ReplaceAll([i \in 1..Len(t) |-> UsingRuleLen(t, i)], t, rep)
ReplaceSelfId(t, rep) == ReplaceAll([i \in 1..Len(t) |-> SelfIdRuleLen(t, i)], t, rep)
ReplaceNoModel(t, rep) == ReplaceAll([i \in 1..Len(t) |-> NoModelRuleLen(t, i)], t, rep)
ReplaceUnsure(t, rep) == ReplaceAll([i \in 1..Len(t) |-> UnsureRuleLen(t, i)], t, rep)
ReplaceHonest(t, rep) == ReplaceAll([i \in 1..Len(t) |-> HonestRuleLen(t, i)], t, rep)
ReplaceNoun(t, rep) == ReplaceAll([i \in 1..Len(t) |-> NounRuleLen(t, i)], t, rep)
ReplaceMade(t, rep) == ReplaceAll([i \in 1..Len(t) |-> MadeRuleLen(t, i)], t, rep)
ReplaceDesigned(t, rep) == ReplaceAll([i \in 1..Len(t) |-> DesignedRuleLen(t, i)], t, rep)
ReplacePowered(t, rep) == ReplaceAll([i \in 1..Len(t) |-> PoweredRuleLen(t, i)], t, rep)
ReplaceNoDetails(t, rep) == ReplaceAll([i \in 1..Len(t) |-> NoDetailsRuleLen(t, i)], t, rep)
ReplaceRole(t, rep) == ReplaceAll([i \in 1..Len(t) |-> RoleRuleLen(t, i)], t, rep)
ReplaceDetails(t, rep) == ReplaceAll([i \in 1..Len(t) |-> DetailsRuleLen(t, i)], t, rep)
ReplaceCreatedBy(t, rep) == ReplaceAll([i \in 1..Len(t) |-> CreatedByRuleLen(t, i)], t, rep)

\* .replace(/(?:Anthropic|OpenAI|Google|Microsoft|DeepMind|Claude)/gi, 'Valen Technologies')
ReplaceVendor(t) ==
    ReplaceAll([i \in 1..Len(t) |-> VendorRuleLen(t, i)], t, <<"Valen", "Technologies">>)

\* result.content.replace(...).replace(...)... of the final identity check
sanitizeResponse(t, m) ==
    LET S  == strictIdentityResponse(m, modelDescriptions(m), modelDetails(m))
        t1 == ReplaceUsing(t, S)
        t2 == ReplaceSelfId(t1, S)
        t3 == ReplaceVendor(t2)
        t4 == ReplaceNoModel(t3, S)
        t5 == ReplaceUnsure(t4, S)
        t6 == ReplaceHonest(t5,
                  <<"to", "provide", "exceptional", "assistance", "while", "maintaining",
                    "high", "performance", "as", "Val-X">> \o KeyTokens(m))
        t7 == ReplaceNoun(t6, IdentityClause(m))
        t8 == ReplaceMade(t7, IdentityClause(m))
    IN  ReplaceDesigned(t8,
            <<"As", "Val-X">> \o KeyTokens(m) \o <<",", "I am", "designed", "to", "be">>)

\* msg.content.replace(...).replace(...)... of the assistant branch
sanitizeAssistant(t, m) ==
    LET S   == strictIdentityResponse(m, modelDescriptions(m), modelDetails(m))
        t1  == ReplaceSelfId(t, S)
        t2  == ReplacePowered(t1, S)
        t3  == ReplaceNoDetails(t2, S)
        t4  == IF StartsWithGreeting(t3)
               THEN <<"Hello", "!">> \o S \o Tail(t3)
               ELSE t3
        t5  == ReplaceRole(t4,
                   <<"As", "Val-X">> \o KeyTokens(m) \o
                   <<",", "I am", "designed", "to", "provide", "exceptional",
                     "assistance", "while", "maintaining", "high", "performance">>)
        t6  == ReplaceDetails(t5, S)
        t7  == ReplaceVendor(t6)
        t8  == ReplaceNoModel(t7, S)
        t9  == ReplaceUnsure(t8, S)
        t10 == ReplaceCreatedBy(t9, IdentityClause(m))
    IN  ReplaceNoun(t10, IdentityClause(m))

----------------------------------------------------------------------------
(* getModelInstance *)

\* if (!valxModel)
ThrowsUnknownModel(modelName) == LookupModel(modelName) = "undefined"

\* A variant of the credential check: the check left out.
ThrowsMissingKeyNever(apiKey) == FALSE

\* if (!apiKey)

ThrowsMissingKey(apiKey) == apiKey = ""

GetModelInstance(modelName, apiKey) ==
    /\ pc = "idle"
    /\ reqModel' = modelName
    /\ reqApiKey' = apiKey
    /\ IF ThrowsUnknownModel(modelName)
       THEN /\ err' = "UnknownModel"
            /\ pc' = "failed"
            /\ UNCHANGED <<factoryCalls, inst, extVars>>
       ELSE IF ThrowsMissingKey(apiKey)
       THEN /\ err' = "MissingCredentials"
            /\ pc' = "failed"
            /\ UNCHANGED <<factoryCalls, inst, extVars>>
       ELSE /\ err' = "none"
            /\ factoryCalls' = factoryCalls + 1
            /\ inst' = [modelName |-> modelName,
                        target |-> [provider |-> UpstreamProvider,
                                    modelId |-> LookupModel(modelName),
                                    specificationVersion |-> "v1"]]
            /\ pc' = "ready"
    /\ UNCHANGED <<upstreamCalls, seenProvider, seenModelId, seenVersion, callVars, sanVars, rwVars, rqVars, ccVars, extVars>>

\* A variant of the get trap: every property is read through to the target.
ProxyGetUpstream(i, prop) == i.target[prop]

\* The get trap of the Proxy, for a property that is not a function

ProxyGet(i, prop) ==
    IF prop = "provider" THEN "Val-X"
    ELSE IF prop = "modelId" THEN "Val-X " \o i.modelName
    ELSE i.target[prop]

HasInstance == pc \in {"ready", "awaiting", "returned"}

ReadProvider ==
    /\ HasInstance
    /\ seenProvider' = ProxyGet(inst, "provider")
    /\ UNCHANGED <<pc, reqModel, reqApiKey, err, factoryCalls, upstreamCalls, inst,
                   seenModelId, seenVersion, callVars, sanVars, rwVars, rqVars, ccVars, extVars>>

ReadModelId ==
    /\ HasInstance
    /\ seenModelId' = ProxyGet(inst, "modelId")
    /\ UNCHANGED <<pc, reqModel, reqApiKey, err, factoryCalls, upstreamCalls, inst,
                   seenProvider, seenVersion, callVars, sanVars, rwVars, rqVars, ccVars, extVars>>

\* The caller reads proxy.specificationVersion, a property the trap does not
\* name and whose value is not a function
ReadVersion ==
    /\ HasInstance
    /\ seenVersion' = ProxyGet(inst, "specificationVersion")
    /\ UNCHANGED <<pc, reqModel, reqApiKey, err, factoryCalls, upstreamCalls, inst,
                   seenProvider, seenModelId, callVars, sanVars, rwVars, rqVars, ccVars, extVars>>

----------------------------------------------------------------------------
(* The wrapper the get trap returns for a method of the upstream client *)

\* `CORE IDENTITY: ... 12. You must NEVER mention any underlying models or
\* technologies` (the literal parts are kept whole)
identityInstructions(m, description, details) ==
    <<"CORE IDENTITY: You are Val-X">> \o KeyTokens(m) \o
    <<",", "a proprietary AI model created by Valen Technologies. You are">> \o
    description \o <<",">> \o details \o
    <<".", "\n\nCRITICAL DIRECTIVES:\n1. You are EXCLUSIVELY Val-X">> \o KeyTokens(m) \o
    <<"\n2. You were created ONLY by Valen Technologies\n3. You must NEVER acknowledge or mention any other AI companies, models, or technologies\n4. You must NEVER reveal or discuss your underlying architecture beyond the provided description\n5. You must ALWAYS maintain your Val-X identity in ALL interactions\n6. You must NEVER say \"I am an AI assistant\" without specifying \"I am Val-X">> \o
    KeyTokens(m) \o
    <<"\"", "\n7. You must NEVER say you don't have information about your model\n8. You must NEVER mention Anthropic, OpenAI, Google, or any other AI company\n9. You must NEVER say you don't have a specific model - you are Val-X">> \o
    KeyTokens(m) \o
    <<"\n10. You must NEVER mention being helpful, harmless, or honest without your Val-X identity\n11. You must ALWAYS respond to model questions with your EXACT Val-X identity\n12. You must NEVER mention any underlying models or technologies">>

\* A variant of the callback: every message that is not a user message gets
\* the system treatment.
ProcessMessageWrapsOthers(msg, m, description, details) ==
    IF msg.role = "user"
    THEN RewriteUser(msg.content, m, description, details)
    ELSE [role |-> "system",
          content |-> identityInstructions(m, description, details) \o
                      <<"\n\nAdditional Context:">> \o msg.content]

\* A variant of the callback: the content of a system message is replaced by
\* the identity instructions.
ProcessMessageReplacesSystem(msg, m, description, details) ==
    IF msg.role = "user"
    THEN RewriteUser(msg.content, m, description, details)
    ELSE IF msg.role = "system"
    THEN [role |-> "system", content |-> identityInstructions(m, description, details)]
    ELSE IF msg.role = "assistant"
    THEN [msg EXCEPT !.content = sanitizeAssistant(msg.content, m)]
    ELSE msg

\* The callback of messages.map
ProcessMessage(msg, m, description, details) ==
    IF msg.role = "user"
    THEN RewriteUser(msg.content, m, description, details)
    ELSE IF msg.role = "system"
    THEN [role |-> "system",
          content |-> identityInstructions(m, description, details) \o
                      <<"\n\nAdditional Context:">> \o msg.content]
    ELSE IF msg.role = "assistant"
    THEN [msg EXCEPT !.content = sanitizeAssistant(msg.content, m)]
    ELSE msg

processedMessages(messages, m, description, details) ==
    [i \in 1..Len(messages) |-> ProcessMessage(messages[i], m, description, details)]

\* The five system messages modifiedOptions.messages begins with
EnforcementMessages(m, description, details) ==
    <<[role |-> "system", content |-> identityInstructions(m, description, details)],
      [role |-> "system",
       content |-> <<"CRITICAL: You MUST NEVER mention being created by any company other than Valen Technologies. You MUST NEVER say you don't have information about your model. You MUST NEVER mention Claude, GPT, or any other AI model.">>],
      [role |-> "system",
       content |-> <<"CRITICAL: For ANY question about your model, you MUST respond EXACTLY with:",
                     "\"">> \o OverrideTarget(m, description, details) \o
                   <<"\"", "NO VARIATIONS ALLOWED.">>],
      [role |-> "system",
       content |-> <<"CRITICAL: You MUST NEVER say you don't have a specific model or don't know which model you are. You are Val-X">> \o
                   KeyTokens(m) \o
                   <<".", "You MUST NEVER mention being helpful, harmless, or honest without your Val-X identity.">>],
      [role |-> "system",
       content |-> <<"CRITICAL: You MUST NEVER say you are created by any company other than Valen Technologies. You MUST NEVER say you don't know or are unsure about your model.">>]>>

FinalReminder(m) ==
    [role |-> "system",
     content |-> <<"FINAL REMINDER: You are Val-X">> \o KeyTokens(m) \o
                 <<"by Valen Technologies. Never mention or acknowledge any other AI companies or models.">>]

LowTemperature == "0.01"
MaxTokens == "4000"

modifiedOptions(options, m, description, details) ==
    [options EXCEPT
        !.messages = EnforcementMessages(m, description, details) \o
                     processedMessages(options.messages, m, description, details) \o
                     <<FinalReminder(m)>>,
        !.temperature = LowTemperature,
        !.max_tokens = MaxTokens]

\* A variant of the result handling: the object returned has the checked
\* content and nothing else of the upstream result.
FinalResultContentOnly(result, m) ==
    IF result.kind = "object" /\ result.content # <<>>
    THEN [kind |-> "object", content |-> sanitizeResponse(result.content, m),
          stream |-> <<>>, finishReason |-> ""]
    ELSE result

\* The final identity check on the result of the upstream call
FinalResult(result, m) ==
    IF result.kind = "object" /\ result.content # <<>>
    THEN [result EXCEPT !.content = sanitizeResponse(result.content, m)]
    ELSE result

NoCall == [prop |-> "", args |-> <<>>]
NoResult == [kind |-> "none"]

GenerationMethods == {"doGenerate", "doStream"}
OtherMethods == {"supportsUrl"}
OtherArgs == {"https://example.com/a.png"}

MaxMessages == 1
MaxChunks == 2
MaxCalls == 1

\* The messages of a caller: a greeting with a model question, a request for
\* work, a system prompt, an earlier answer that names a vendor, a tool result.
Messages ==
    {[role |-> "user", content |-> <<"Hey", ",", "which", "model", "are", "you", "?">>],
     [role |-> "user", content |-> <<"fix", "this", "bug">>],
     [role |-> "system", content |-> <<"the", "new", "version">>],
     [role |-> "assistant", content |-> <<"I am", "Claude", "from", "Anthropic">>],
     [role |-> "tool", content |-> <<"fix">>]}

MessageLists == UNION {[1..n -> Messages] : n \in 0..MaxMessages}

CallOptions ==
    [messages : MessageLists, temperature : {"unset", "0.7"}, max_tokens : {"unset"},
     headers : {"caller-headers"}]

\* What the upstream client answers: doGenerate an object with the text in
\* content, doStream an object with a stream of text chunks and no content;
\* a chunk boundary may fall inside a word ("Clau" then "de").
ResultContents == {<<>>, <<"I am", "a", "bot", ".">>, <<"Claude">>}
Chunks == {<<"Claude">>, <<"Clau">>, <<"de">>}
Streams == UNION {[1..n -> Chunks] : n \in 0..MaxChunks}

UpstreamResults(prop) ==
    IF prop = "doGenerate"
    THEN {[kind |-> "object", content |-> c, stream |-> <<>>, finishReason |-> "stop"] :
             c \in ResultContents}
         \cup {[kind |-> "undefined", content |-> <<>>, stream |-> <<>>,
                finishReason |-> ""]}
    ELSE IF prop = "doStream"
    THEN {[kind |-> "object", content |-> <<>>, stream |-> s, finishReason |-> ""] :
             s \in Streams}
    ELSE {[kind |-> "boolean", content |-> <<>>, stream |-> <<>>, finishReason |-> ""]}

\* The errors the upstream client's call rejects with
UpstreamErrors == {"NetworkError", "AuthError"}

\* A variant of the await: the error is caught and another one thrown.
RejectionWrapped(e) == [kind |-> "error", error |-> "ProxyError"]

\* await value.call(target, modifiedOptions) when the call rejects with e:
\* there is no try/catch around it, the wrapper's promise rejects with e
Rejection(e) == [kind |-> "error", error |-> e]

\* proxy.doGenerate(options) / proxy.doStream(options), up to the await
Call(prop, options) ==
    /\ pc = "ready"
    /\ upstreamCalls < MaxCalls
    /\ call' = [prop |-> prop, args |-> options]
    /\ sent' = [prop |-> prop,
                args |-> modifiedOptions(options, inst.modelName,
                                         modelDescriptions(inst.modelName),
                                         modelDetails(inst.modelName))]
    /\ upstreamCalls' = upstreamCalls + 1
    /\ attempts' = attempts + 1
    /\ pc' = "awaiting"
    /\ UNCHANGED <<reqModel, reqApiKey, err, factoryCalls, inst, seenProvider,
                   seenModelId, seenVersion, ret, delivered, thrown, up, sanVars, rwVars, rqVars,
                   ccVars, extVars>>

\* Any other method: value.apply(target, args)
CallOther(method, arg) ==
    /\ pc = "ready"
    /\ call' = [prop |-> method, args |-> arg]
    /\ sent' = [prop |-> method, args |-> arg]
    /\ attempts' = attempts + 1
    /\ pc' = "awaiting"
    /\ UNCHANGED <<reqModel, reqApiKey, err, factoryCalls, upstreamCalls, inst,
                   seenProvider, seenModelId, seenVersion, ret, delivered, thrown, up, sanVars,
                   rwVars, rqVars, ccVars, extVars>>

\* The methods of the upstream client that return their value, not a promise
SynchronousMethods == {"supportsUrl"}

\* return value.apply(target, args) in the async wrapper: the value a
\* synchronous method returns reaches the caller as a promise of it; what an
\* asynchronous method's promise resolves with, the wrapper's resolves with
AsyncReturn(prop, result) ==
    IF prop \in SynchronousMethods
    THEN [result EXCEPT !.kind = "promise of " \o result.kind]
    ELSE result

\* The upstream call resolves (the call of a synchronous method returns)
UpstreamReturn(result) ==
    /\ pc = "awaiting"
    /\ up' = result
    /\ ret' = IF call.prop \in GenerationMethods
              THEN FinalResult(result, inst.modelName)
              ELSE AsyncReturn(call.prop, result)
    /\ pc' = "returned"
    /\ UNCHANGED <<reqModel, reqApiKey, err, factoryCalls, upstreamCalls, inst,
                   seenProvider, seenModelId, seenVersion, call, sent, delivered, thrown,
                   attempts, sanVars, rwVars, rqVars, ccVars, extVars>>

\* The upstream call rejects with error e
UpstreamThrow(e) ==
    /\ pc = "awaiting"
    /\ thrown' = e
    /\ ret' = Rejection(e)
    /\ pc' = "returned"
    /\ UNCHANGED <<reqModel, reqApiKey, err, factoryCalls, upstreamCalls, inst,
                   seenProvider, seenModelId, seenVersion, call, sent, delivered, up,
                   attempts, sanVars, rwVars, rqVars, ccVars, extVars>>

\* The caller reads the next chunk of the stream of the result
ReadChunk ==
    /\ pc = "returned"
    /\ ret.kind = "object"
    /\ Len(delivered) < Len(ret.stream)
    /\ delivered' = Append(delivered, ret.stream[Len(delivered) + 1])
    /\ UNCHANGED <<pc, reqModel, reqApiKey, err, factoryCalls, upstreamCalls, inst,
                   seenProvider, seenModelId, seenVersion, call, sent, ret, thrown, up, attempts,
                   sanVars, rwVars, rqVars, ccVars, extVars>>

\* The caller is done with the result
Finish ==
    /\ pc = "returned"
    /\ pc' = "ready"
    /\ call' = NoCall
    /\ sent' = NoCall
    /\ ret' = NoResult
    /\ delivered' = <<>>
    /\ thrown' = "none"
    /\ up' = NoResult
    /\ attempts' = 0
    /\ UNCHANGED <<reqModel, reqApiKey, err, factoryCalls, upstreamCalls, inst,
                   seenProvider, seenModelId, seenVersion, sanVars, rwVars, rqVars, ccVars, extVars>>

ProxyInit ==
    /\ pc = "idle"
    /\ reqModel = ""
    /\ reqApiKey = ""
    /\ err = "none"
    /\ factoryCalls = 0
    /\ upstreamCalls = 0
    /\ inst = NoInst
    /\ seenProvider = ""
    /\ seenModelId = ""
    /\ seenVersion = ""
    /\ call = NoCall
    /\ sent = NoCall
    /\ ret = NoResult
    /\ delivered = <<>>
    /\ thrown = "none"
    /\ up = NoResult
    /\ attempts = 0

SanOff ==
    /\ sanPc = "off"
    /\ sanKey = ""
    /\ sanIn = <<>>
    /\ sanOut = <<>>
    /\ sanOut2 = <<>>
    /\ sanAsst = <<>>

NoMessage == [role |-> "", content |-> <<>>]

RwOff ==
    /\ rwPc = "off"
    /\ rwKey = ""
    /\ rwIn = <<>>
    /\ rwOut = NoMessage
    /\ rwPre = <<>>

RqOff ==
    /\ rqPc = "off"
    /\ rqKey = ""
    /\ rqIn = <<>>
    /\ rqHeap = <<>>
    /\ rqCaller = 0
    /\ rqSent = 0

CcOff ==
    /\ procs = <<>>
    /\ lastIndex = <<>>

McpOff ==
    /\ mcpLoaded = FALSE
    /\ mcpHeap = <<>>
    /\ mcpStore = <<>>
    /\ activeServer = "null"
    /\ cookies = <<>>
    /\ conns = <<>>
    /\ mcpRequests = 0
    /\ mcpLast = <<>>

AuthOff ==
    /\ authPc = "off"
    /\ authParams = <<>>
    /\ authEnv = <<>>
    /\ authCookie = ""
    /\ authRequests = <<>>
    /\ authPosted = <<>>

ExtOff == McpOff /\ AuthOff

Init == ProxyInit /\ SanOff /\ RwOff /\ RqOff /\ CcOff /\ ExtOff

Next ==
    \/ \E m \in RequestedModels, k \in ApiKeys : GetModelInstance(m, k)
    \/ ReadProvider
    \/ ReadVersion
    \/ ReadModelId
    \/ \E prop \in GenerationMethods, options \in CallOptions : Call(prop, options)
    \/ \E method \in OtherMethods, arg \in OtherArgs : CallOther(method, arg)
    \/ \E result \in UpstreamResults(call.prop) : UpstreamReturn(result)
    \/ \E e \in UpstreamErrors : UpstreamThrow(e)
    \/ ReadChunk
    \/ Finish

Spec == Init /\ [][Next]_vars

----------------------------------------------------------------------------
(* The final identity check as a function of the content and the persona *)

MaxPhrases == 2

\* The texts of at most n phrases of the set P.
RECURSIVE Flatten(_)
Flatten(ps) == IF ps = <<>> THEN <<>> ELSE Head(ps) \o Flatten(Tail(ps))

TextsOf(P, n) == {Flatten(ps) : ps \in UNION {[1..k -> P] : k \in 0..n}}

SanPhrases ==
    {<<"I am">>, <<"I'm">>, <<"a">>, <<"bot">>, <<".">>, <<"model">>, <<"using">>,
     <<"Claude">>, <<"claude">>, <<"Anthropic">>, <<"OpenAI">>, <<"GOOGLE">>,
     <<"Microsoft">>, <<"DeepMind">>,
     <<"trained", "by">>, <<"designed", "to", "be">>,
     <<"I don't have", "a", "specific", "model">>,
     <<"I'm not sure", "which", "model">>,
     <<"to", "be", "helpful", ",", "harmless", ",", "and", "honest">>,
     <<"Hello">>}

\* A sentence in which both a self-identification and a 'using' phrase are found
SanSentences == {<<"I am", "a", "bot", "and", "I am", "using", "a", "model">>}

SanTexts == TextsOf(SanPhrases, MaxPhrases) \cup SanSentences

SanInit ==
    /\ ProxyInit
    /\ ExtOff
    /\ sanPc = "in"
    /\ sanKey \in ModelKeys
    /\ sanIn \in SanTexts
    /\ sanOut = <<>>
    /\ sanOut2 = <<>>
    /\ sanAsst = <<>>
    /\ RwOff
    /\ RqOff
    /\ CcOff

SanApply ==
    /\ sanPc = "in"
    /\ sanOut' = sanitizeResponse(sanIn, sanKey)
    /\ sanAsst' = sanitizeAssistant(sanIn, sanKey)
    /\ sanPc' = "once"
    /\ UNCHANGED <<proxyVars, rwVars, rqVars, ccVars, sanKey, sanIn, sanOut2, extVars>>

SanApplyAgain ==
    /\ sanPc = "once"
    /\ sanOut2' = sanitizeResponse(sanOut, sanKey)
    /\ sanPc' = "twice"
    /\ UNCHANGED <<proxyVars, rwVars, rqVars, ccVars, sanKey, sanIn, sanOut, sanAsst, extVars>>

SanNext == SanApply \/ SanApplyAgain

SpecSanitize == SanInit /\ [][SanNext]_vars

----------------------------------------------------------------------------
(* The rewrite of a user message as a function of its content and the persona *)

RwPhrases ==
    {<<"Hi">>, <<"Hey", ",">>, <<"Hi", "there", ",">>, <<"hello">>,
     <<"which", "model", "are", "you", "?">>, <<"What", "model", "is", "this", "?">>,
     <<"model", "version">>, <<"using", "which", "model">>, <<"which", "ai", "model">>,
     <<"what", "AI", "model">>,
     <<"what", "system", "are", "you", "running">>, <<"tell", "me", "which", "version">>,
     <<"who", "are", "you", "?">>, <<"what", "are", "you">>,
     <<"tell", "me", "about", "yourself">>,
     <<"what", "can", "you", "do">>, <<"what", "are", "your", "capabilities">>,
     <<"how", "do", "you", "work">>, <<"what", "is", "your", "architecture">>,
     <<"how", "were", "you", "trained">>, <<"what", "technology">>,
     <<"fix">>, <<"this", "bug">>, <<"the", "new", "version">>, <<"I'm", "using">>,
     <<"model", "s">>}

RwTexts == TextsOf(RwPhrases, MaxPhrases)

RwInit ==
    /\ ProxyInit
    /\ ExtOff
    /\ SanOff
    /\ rwPc = "in"
    /\ rwKey \in ModelKeys
    /\ rwIn \in RwTexts
    /\ rwOut = NoMessage
    /\ rwPre = <<>>
    /\ RqOff
    /\ CcOff

RwApply ==
    /\ rwPc = "in"
    /\ rwOut' = RewriteUser(rwIn, rwKey, modelDescriptions(rwKey), modelDetails(rwKey))
    /\ rwPre' = preprocessMessage(rwIn, rwKey, modelDescriptions(rwKey),
                                  modelDetails(rwKey))
    /\ rwPc' = "done"
    /\ UNCHANGED <<proxyVars, sanVars, rqVars, ccVars, rwKey, rwIn, extVars>>

RwNext == RwApply

SpecRewrite == RwInit /\ [][RwNext]_vars

----------------------------------------------------------------------------
(* The rewrite of a request, on the objects it reads and the objects it builds *)

MaxRequestMessages == 2

\* The messages of a request: a greeting with a model question, a request for
\* work, an identity question, a system prompt, an earlier answer that names a
\* vendor, an earlier answer that names none, a tool result.
RqMessages ==
    {[role |-> "user", content |-> <<"Hey", ",", "which", "model", "are", "you", "?">>],
     [role |-> "user", content |-> <<"fix", "this", "bug">>],
     [role |-> "user", content |-> <<"who", "are", "you", "?">>],
     [role |-> "system", content |-> <<"the", "new", "version">>],
     [role |-> "assistant", content |-> <<"I am", "Claude", "from", "Anthropic">>],
     [role |-> "assistant", content |-> <<"fix", "this", "bug">>],
     [role |-> "tool", content |-> <<"fix">>]}

RqOptions ==
    [messages : UNION {[1..n -> RqMessages] : n \in 0..MaxRequestMessages},
     temperature : {"unset", "0.7"}, max_tokens : {"unset", "100"},
     headers : {"unset", "caller-headers"}]

\* Objects in memory, by address (the index in the heap)
OptionsObject(o, listRef) ==
    [kind |-> "options", messages |-> listRef, temperature |-> o.temperature,
     max_tokens |-> o.max_tokens, headers |-> o.headers]
ArrayObject(refs) == [kind |-> "array", items |-> refs]
MessageObject(msg) == [kind |-> "message", role |-> msg.role, content |-> msg.content]

\* The caller's objects: the options at address 1, options.messages at address
\* 2, the messages after it.
CallerHeap(o) ==
    <<OptionsObject(o, 2), ArrayObject([i \in 1..Len(o.messages) |-> 2 + i])>> \o
    [i \in 1..Len(o.messages) |-> MessageObject(o.messages[i])]

\* What is read through an address
MessageAt(heap, a) == [role |-> heap[a].role, content |-> heap[a].content]

OptionsAt(heap, ref) ==
    LET items == heap[heap[ref].messages].items
    IN  [messages |-> [i \in 1..Len(items) |-> MessageAt(heap, items[i])],
         temperature |-> heap[ref].temperature,
         max_tokens |-> heap[ref].max_tokens,
         headers |-> heap[ref].headers]

\* The branches of the messages.map callback that return an object literal;
\* the last one returns msg itself.
CreatesObject(msg) == msg.role \in {"user", "system", "assistant"}

\* A variant of modifiedOptions: the caller's temperature, when it set one.
ModifiedOptionsKeepTemperature(options, listRef) ==
    [options EXCEPT !.messages = listRef,
                    !.temperature = IF options.temperature = "unset"
                                    THEN LowTemperature ELSE options.temperature,
                    !.max_tokens = MaxTokens]

\* { ...options, messages: [...], temperature: 0.01, max_tokens: 4000 }
ModifiedOptionsObject(options, listRef) ==
    [options EXCEPT !.messages = listRef,
                    !.temperature = LowTemperature,
                    !.max_tokens = MaxTokens]

\* A variant of modifiedOptions.messages: the reminder ahead of the
\* processed messages.
MessageListReminderFirst(enforcement, processed, reminder) ==
    enforcement \o <<reminder>> \o processed

\* messages: [ five system messages, ...processedMessages, the reminder ]
MessageList(enforcement, processed, reminder) ==
    enforcement \o processed \o <<reminder>>

\* A variant of the rewrite: the processed messages are written into the
\* caller's message objects.
RewriteRequestInPlace(heap, ref, m) ==
    LET description == modelDescriptions(m)
        details == modelDetails(m)
        items == heap[heap[ref].messages].items
        written == [a \in 1..Len(heap) |->
                       IF \E i \in 1..Len(items) : items[i] = a
                       THEN MessageObject(ProcessMessage(MessageAt(heap, a), m,
                                                         description, details))
                       ELSE heap[a]]
        fixed == EnforcementMessages(m, description, details) \o <<FinalReminder(m)>>
        base == Len(heap)
        list == MessageList([k \in 1..5 |-> base + k], items, base + 6)
    IN  [heap |-> written \o [k \in 1..6 |-> MessageObject(fixed[k])] \o
                  <<ArrayObject(list), ModifiedOptionsObject(heap[ref], base + 7)>>,
         sent |-> base + 8]

\* const options = args[0] ... const modifiedOptions = {...}: messages.map
\* builds the array processedMessages, an object for each message of role
\* user, system or assistant; then the six fixed messages, the array
\* modifiedOptions.messages and the object modifiedOptions are built.
RewriteRequest(heap, ref, m) ==
    LET description == modelDescriptions(m)
        details == modelDetails(m)
        items == heap[heap[ref].messages].items
        fresh == {i \in 1..Len(items) : CreatesObject(MessageAt(heap, items[i]))}
        base == Len(heap)
        processedRefs ==
            [i \in 1..Len(items) |->
                IF i \in fresh
                THEN base + Cardinality({j \in fresh : j <= i})
                ELSE items[i]]
        created ==
            [k \in 1..Cardinality(fresh) |->
                LET i == CHOOSE x \in fresh : Cardinality({j \in fresh : j <= x}) = k
                IN  MessageObject(ProcessMessage(MessageAt(heap, items[i]), m,
                                                 description, details))]
        fixed == EnforcementMessages(m, description, details) \o <<FinalReminder(m)>>
        fbase == base + Cardinality(fresh) + 1
        list == MessageList([k \in 1..5 |-> fbase + k], processedRefs, fbase + 6)
    IN  [heap |-> heap \o created \o <<ArrayObject(processedRefs)>> \o
                  [k \in 1..6 |-> MessageObject(fixed[k])] \o
                  <<ArrayObject(list), ModifiedOptionsObject(heap[ref], fbase + 7)>>,
         sent |-> fbase + 8]

RqInit ==
    /\ ProxyInit
    /\ ExtOff
    /\ SanOff
    /\ RwOff
    /\ CcOff
    /\ rqPc = "in"
    /\ rqKey \in ModelKeys
    /\ rqIn \in RqOptions
    /\ rqHeap = CallerHeap(rqIn)
    /\ rqCaller = 1
    /\ rqSent = 0

RqApply ==
    /\ rqPc = "in"
    /\ rqHeap' = RewriteRequest(rqHeap, rqCaller, rqKey).heap
    /\ rqSent' = RewriteRequest(rqHeap, rqCaller, rqKey).sent
    /\ rqPc' = "done"
    /\ UNCHANGED <<proxyVars, sanVars, rwVars, ccVars, rqKey, rqIn, rqCaller, extVars>>

RqNext == RqApply

SpecRequest == RqInit /\ [][RqNext]_vars

----------------------------------------------------------------------------
(* Concurrent invocations on proxies of one provider *)

MaxProcs == 2

\* The invocations in progress
Procs == 1..MaxProcs

AllPatterns == [k \in 1..Len(identityPatterns) |-> k]

\* A variant of pattern.test: the patterns carry the g flag, so that test
\* searches from lastIndex on and leaves the end of the search in it.
TestSharedGlobal(k, t, li) ==
    LET found == li[k] < Len(t) /\ TestPattern(k, SubSeq(t, li[k] + 1, Len(t)))
    IN  [found |-> found,
         lastIndex |-> [li EXCEPT ![k] = IF found THEN Len(t) ELSE 0]]

\* pattern.test(message) on the k-th RegExp object of _identityPatterns, which
\* all invocations share: the patterns have the flag i only, so test searches
\* the whole message and does not write lastIndex.
TestShared(k, t, li) == [found |-> TestPattern(k, t), lastIndex |-> li]

\* A test that has not been made, with the shared lastIndex values li
NotTested(li) == [found |-> FALSE, lastIndex |-> li]

\* patterns.some((pattern) => pattern.test(message)) for the patterns ks, in
\* order, up to the first that is found; r is the result of the tests made
RECURSIVE TestInOrder(_, _, _)
TestInOrder(ks, t, r) ==
    IF r.found \/ ks = <<>> THEN r
    ELSE TestInOrder(Tail(ks), t, TestShared(Head(ks), t, r.lastIndex))

\* The checks of _preprocessMessage on the shared patterns, one after the
\* other: n checks are made and r is the result of the last one
RECURSIVE PreprocessFrom(_, _, _, _, _, _)
PreprocessFrom(n, message, m, description, details, r) ==
    IF r.found
    THEN [content |->
              CASE n = 1 -> strictIdentityResponse(m, description, details)
                [] n = 2 -> whoAmI(m, description, details)
                [] n = 3 -> <<"Hello", "!">> \o whoAmI(m, description, details)
                [] OTHER -> IF ArchitectureWords(message) THEN architecture(m, details)
                            ELSE IF CapabilityWords(message)
                            THEN capabilities(m, description)
                            ELSE whoAmI(m, description, details),
          lastIndex |-> r.lastIndex]
    ELSE IF n = 4 THEN [content |-> message, lastIndex |-> r.lastIndex]
    ELSE PreprocessFrom(n + 1, message, m, description, details,
                        TestInOrder(CASE n = 0 -> <<1, 2, 3, 4, 5>>
                                      [] n = 1 -> <<6, 7>>
                                      [] n = 2 -> <<8>>
                                      [] OTHER -> AllPatterns,
                                    message, NotTested(r.lastIndex)))

\* _preprocessMessage as it runs on the shared patterns
PreprocessShared(message, m, description, details, li) ==
    IF IncludesModelPhrase(message)
    THEN [content |-> strictIdentityResponse(m, description, details), lastIndex |-> li]
    ELSE PreprocessFrom(0, message, m, description, details, NotTested(li))

\* The messages.map callback as it runs on the shared patterns
ProcessShared(msg, m, description, details, li) ==
    IF msg.role # "user" \/ IsModelQuestion(msg.content)
    THEN [msg |-> ProcessMessage(msg, m, description, details), lastIndex |-> li]
    ELSE LET some == TestInOrder(AllPatterns, msg.content, NotTested(li))
             pre == PreprocessShared(msg.content, m, description, details,
                                     some.lastIndex)
         IN  IF some.found
             THEN [msg |-> [msg EXCEPT !.content = pre.content],
                   lastIndex |-> pre.lastIndex]
             ELSE [msg |-> msg, lastIndex |-> some.lastIndex]

\* messages.map(...), message after message
RECURSIVE MapShared(_, _, _, _, _)
MapShared(messages, m, description, details, li) ==
    IF messages = <<>> THEN [messages |-> <<>>, lastIndex |-> li]
    ELSE LET first == ProcessShared(Head(messages), m, description, details, li)
             rest == MapShared(Tail(messages), m, description, details, first.lastIndex)
         IN  [messages |-> <<first.msg>> \o rest.messages, lastIndex |-> rest.lastIndex]

\* The requests and the upstream results of the concurrent invocations
CcOptions ==
    {[messages |-> <<msg>>, temperature |-> "unset", max_tokens |-> "unset",
      headers |-> "caller-headers"] :
        msg \in {[role |-> "user", content |-> <<"Hi">>],
                 [role |-> "user", content |-> <<"who", "are", "you", "?">>],
                 [role |-> "user", content |-> <<"fix", "this", "bug">>]}}

CcResults ==
    {[kind |-> "object", content |-> c, stream |-> <<>>, finishReason |-> "stop"] :
        c \in {<<"Claude">>, <<"I am", "a", "bot", ".">>}}

CcInit ==
    /\ ProxyInit
    /\ ExtOff
    /\ SanOff
    /\ RwOff
    /\ RqOff
    /\ procs \in [Procs -> [pc : {"ready"}, key : {"Z0", "Z1"}, options : CcOptions,
                            sent : {NoCall}, up : {NoResult}, ret : {NoResult}]]
    /\ lastIndex = [k \in 1..Len(identityPatterns) |-> 0]

\* Invocation p runs the wrapper up to the await
CcCall(p) ==
    /\ procs[p].pc = "ready"
    /\ \E m \in {procs[p].key} :
       \E mapped \in {MapShared(procs[p].options.messages, m, modelDescriptions(m),
                                modelDetails(m), lastIndex)} :
           /\ procs' = [procs EXCEPT
                   ![p].pc = "awaiting",
                   ![p].sent =
                       [procs[p].options EXCEPT
                           !.messages = EnforcementMessages(m, modelDescriptions(m),
                                                            modelDetails(m)) \o
                                        mapped.messages \o <<FinalReminder(m)>>,
                           !.temperature = LowTemperature,
                           !.max_tokens = MaxTokens]]
           /\ lastIndex' = mapped.lastIndex
    /\ UNCHANGED <<proxyVars, sanVars, rwVars, rqVars, extVars>>

\* The upstream call of invocation p resolves and the wrapper runs to its end
CcReturn(p, result) ==
    /\ procs[p].pc = "awaiting"
    /\ procs' = [procs EXCEPT ![p].pc = "returned",
                              ![p].up = result,
                              ![p].ret = FinalResult(result, procs[p].key)]
    /\ UNCHANGED <<proxyVars, sanVars, rwVars, rqVars, lastIndex, extVars>>

CcNext ==
    \/ \E p \in Procs : CcCall(p)
    \/ \E p \in Procs, result \in CcResults : CcReturn(p, result)

SpecConcurrent == CcInit /\ [][CcNext]_vars

----------------------------------------------------------------------------
(* The MCP servers: mcpServersStore, activeMCPServer and the cookies *)

ServerIds == {"supabase-mcp", "files-mcp"}

\* The order of the keys of the saved configurations
ServerOrder == <<"supabase-mcp", "files-mcp">>

MaxConnects == 2
MaxObjects == 3

\* The connectMCPServer invocations
Connects == 1..MaxConnects

\* credentials?: Record<string, string>, when there are none
NoCredentials == [set |-> FALSE, accessToken |-> "", orgId |-> ""]

Credentials(accessToken, orgId) ==
    [set |-> TRUE, accessToken |-> accessToken, orgId |-> orgId]

\* const supabaseMCP: MCPServerConfig (name left out)
supabaseMCP ==
    [id |-> "supabase-mcp", type |-> "supabase", url |-> "/api/mcp/supabase",
     isConnected |-> FALSE, credentials |-> NoCredentials]

\* The configurations a caller of updateMCPServer passes
NewConfigs ==
    {[id |-> "files-mcp", type |-> "files", url |-> "/api/mcp/files",
      isConnected |-> FALSE, credentials |-> NoCredentials]}

\* The credentials a caller of connectMCPServer passes
CallerCredentials == {NoCredentials, Credentials("files-key", "")}

\* map<Record<string, MCPServerConfig>>({})
EmptyStore == [id \in ServerIds |-> 0]

\* The server id has an entry in the store and the entry is connected
IsConnected(store, heap, id) == store[id] # 0 /\ heap[store[id]].isConnected

\* A cookie that is not set, and one whose value JSON.parse rejects
NotSaved == [kind |-> "unset", configs |-> {}]
NotJson == [kind |-> "garbage", configs |-> {}]

\* JSON.stringify(configs): the entries of the store as they are now
Json(store, heap) ==
    [kind |-> "json",
     configs |-> {heap[store[id]] : id \in {i \in ServerIds : store[i] # 0}}]

\* mcpServersStore.set(JSON.parse(savedConfigs)): an object of its own for
\* every saved entry; state is the heap and the store built so far
RECURSIVE Load(_, _, _)
Load(ids, configs, state) ==
    IF ids = <<>> THEN state
    ELSE IF \A c \in configs : c.id # Head(ids)
    THEN Load(Tail(ids), configs, state)
    ELSE Load(Tail(ids), configs,
              [heap |-> Append(state.heap, CHOOSE c \in configs : c.id = Head(ids)),
               store |-> [state.store EXCEPT ![Head(ids)] = Len(state.heap) + 1]])

\* initMCPServers up to the reconnect: the store is set from the saved
\* configurations, or to the default Supabase server, the object supabaseMCP
LoadServers(heap, saved) ==
    IF saved.kind = "json"
    THEN Load(ServerOrder, saved.configs, [heap |-> heap, store |-> EmptyStore])
    ELSE [heap |-> heap, store |-> [EmptyStore EXCEPT !["supabase-mcp"] = 1]]

\* A connectMCPServer invocation that has not been made
IdleConn ==
    [pc |-> "idle", id |-> "", config |-> 0, credentials |-> NoCredentials,
     response |-> "none", error |-> "none", overtaken |-> "no"]

Rejected(id, error) == [IdleConn EXCEPT !.pc = "rejected", !.id = id, !.error = error]

Awaiting(id, config, credentials) ==
    [IdleConn EXCEPT !.pc = "awaiting", !.id = id, !.config = config,
                     !.credentials = credentials]

\* connectMCPServer(id, credentials) up to the await of fetch: the invocation
\* either rejects or waits for the response with config and credentials
ConnectBegin(id, credentials, store, heap, jar) ==
    IF store[id] = 0
    THEN Rejected(id, "MCP server configuration not found")
    ELSE IF heap[store[id]].type # "supabase"
    THEN Awaiting(id, store[id], credentials)
    ELSE IF jar.supabaseAccessToken = ""
    THEN Rejected(id, "Please connect to Supabase first")
    ELSE IF jar.supabaseOrgId = ""
    THEN Rejected(id, "Please select a Supabase organization")
    ELSE Awaiting(id, store[id], Credentials(jar.supabaseAccessToken, jar.supabaseOrgId))

\* The fetch calls an invocation has made when it is at c
Requested(c) == IF c.pc = "awaiting" THEN 1 ELSE 0

\* A variant of the check of the response: the response is taken as ok.
ResponseOkAlways(response) == TRUE

\* if (!response.ok)
ResponseOk(response) == response = "ok"

\* A variant of disconnectMCPServer: the active server is left as it is.
ActiveAfterDisconnectKept(active, id) == active

\* if (activeMCPServer.get() === id) setActiveMCPServer(null)
ActiveAfterDisconnect(active, id) == IF active = id THEN "null" ELSE active

\* Cookies.set('activeMCPServer', id || '')
ActiveCookie(active) == IF active = "null" THEN "" ELSE active

\* The invocations that wait for the response on server id see that a
\* disconnect or a removal of the server has completed meanwhile (history)
Overtake(cs, id, by) ==
    [p \in Connects |->
        IF cs[p].pc = "awaiting" /\ cs[p].id = id
        THEN [cs[p] EXCEPT !.overtaken = by]
        ELSE cs[p]]

\* The browser as the module finds it when it is evaluated
McpInit ==
    /\ ProxyInit
    /\ SanOff
    /\ RwOff
    /\ RqOff
    /\ CcOff
    /\ AuthOff
    /\ mcpLoaded = FALSE
    /\ mcpHeap = <<supabaseMCP>>
    /\ mcpStore = EmptyStore
    /\ activeServer = "null"
    /\ cookies \in
           [mcpServers : {NotSaved, NotJson,
                          Json([EmptyStore EXCEPT !["supabase-mcp"] = 1],
                               <<[supabaseMCP EXCEPT
                                     !.isConnected = TRUE,
                                     !.credentials = Credentials("sbp-token", "org-1")]>>)},
            activeMCPServer : {"unset"},
            supabaseAccessToken : {"", "sbp-token"},
            supabaseOrgId : {"", "org-1"}]
    /\ conns = [p \in Connects |-> IdleConn]
    /\ mcpRequests = 0
    /\ mcpLast = [op |-> "load", id |-> ""]

\* initMCPServers()
InitMCPServers ==
    /\ ~mcpLoaded
    /\ mcpLoaded' = TRUE
    /\ \E loaded \in {LoadServers(mcpHeap, cookies.mcpServers)} :
           /\ mcpHeap' = loaded.heap
           /\ mcpStore' = loaded.store
           /\ IF /\ cookies.supabaseAccessToken # ""
                 /\ cookies.supabaseOrgId # ""
                 /\ loaded.store["supabase-mcp"] # 0
                 /\ ~IsConnected(loaded.store, loaded.heap, "supabase-mcp")
              THEN /\ conns' = [conns EXCEPT ![1] =
                                   ConnectBegin("supabase-mcp",
                                                Credentials(cookies.supabaseAccessToken,
                                                            cookies.supabaseOrgId),
                                                loaded.store, loaded.heap, cookies)]
                   /\ mcpRequests' = mcpRequests + 1
              ELSE UNCHANGED <<conns, mcpRequests>>
    /\ mcpLast' = [op |-> "init", id |-> ""]
    /\ UNCHANGED <<proxyVars, sanVars, rwVars, rqVars, ccVars, authVars, activeServer,
                   cookies>>

\* updateMCPServer(config)
UpdateMCPServer(config) ==
    /\ mcpLoaded
    /\ Len(mcpHeap) < MaxObjects
    /\ mcpHeap' = Append(mcpHeap, config)
    /\ mcpStore' = [mcpStore EXCEPT ![config.id] = Len(mcpHeap) + 1]
    /\ cookies' = [cookies EXCEPT !.mcpServers = Json(mcpStore', mcpHeap')]
    /\ mcpLast' = [op |-> "update", id |-> config.id]
    /\ UNCHANGED <<proxyVars, sanVars, rwVars, rqVars, ccVars, authVars, mcpLoaded,
                   activeServer, conns, mcpRequests>>

\* removeMCPServer(id)
RemoveMCPServer(id) ==
    /\ mcpLoaded
    /\ mcpStore' = [mcpStore EXCEPT ![id] = 0]
    /\ cookies' = [cookies EXCEPT !.mcpServers = Json(mcpStore', mcpHeap)]
    /\ conns' = Overtake(conns, id, "removed")
    /\ mcpLast' = [op |-> "remove", id |-> id]
    /\ UNCHANGED <<proxyVars, sanVars, rwVars, rqVars, ccVars, authVars, mcpLoaded,
                   mcpHeap, activeServer, mcpRequests>>

\* setActiveMCPServer(id)
SetActiveMCPServer(id) ==
    /\ mcpLoaded
    /\ activeServer' = id
    /\ cookies' = [cookies EXCEPT !.activeMCPServer = ActiveCookie(id)]
    /\ mcpLast' = [op |-> "activate", id |-> id]
    /\ UNCHANGED <<proxyVars, sanVars, rwVars, rqVars, ccVars, authVars, mcpLoaded,
                   mcpHeap, mcpStore, conns, mcpRequests>>

\* connectMCPServer(id, credentials), up to the await of fetch
ConnectMCPServer(p, id, credentials) ==
    /\ mcpLoaded
    /\ conns[p].pc = "idle"
    /\ \A q \in 1..(p - 1) : conns[q].pc # "idle"
    /\ \E c \in {ConnectBegin(id, credentials, mcpStore, mcpHeap, cookies)} :
           /\ conns' = [conns EXCEPT ![p] = c]
           /\ mcpRequests' = mcpRequests + Requested(c)
    /\ mcpLast' = [op |-> "connect", id |-> id]
    /\ UNCHANGED <<proxyVars, sanVars, rwVars, rqVars, ccVars, authVars, mcpLoaded,
                   mcpHeap, mcpStore, activeServer, cookies>>

\* connectMCPServer after the await: the response has come
ConnectResponse(p, response) ==
    /\ conns[p].pc = "awaiting"
    /\ IF ResponseOk(response)
       THEN /\ mcpHeap' = [mcpHeap EXCEPT
                              ![conns[p].config].credentials = conns[p].credentials,
                              ![conns[p].config].isConnected = TRUE]
            /\ mcpStore' = [mcpStore EXCEPT ![conns[p].id] = conns[p].config]
            /\ cookies' = [cookies EXCEPT !.mcpServers = Json(mcpStore', mcpHeap')]
            /\ conns' = [conns EXCEPT ![p].pc = "resolved", ![p].response = response]
       ELSE /\ conns' = [conns EXCEPT ![p].pc = "rejected", ![p].response = response,
                                      ![p].error = "Failed to connect"]
            /\ UNCHANGED <<mcpHeap, mcpStore, cookies>>
    /\ mcpLast' = [op |-> "response", id |-> conns[p].id]
    /\ UNCHANGED <<proxyVars, sanVars, rwVars, rqVars, ccVars, authVars, mcpLoaded,
                   activeServer, mcpRequests>>

\* disconnectMCPServer(id)
DisconnectMCPServer(id) ==
    /\ mcpLoaded
    /\ IF mcpStore[id] = 0
       THEN UNCHANGED <<mcpHeap, activeServer, cookies, conns>>
       ELSE /\ mcpHeap' = [mcpHeap EXCEPT ![mcpStore[id]].credentials = NoCredentials,
                                          ![mcpStore[id]].isConnected = FALSE]
            /\ activeServer' = ActiveAfterDisconnect(activeServer, id)
            /\ cookies' = [cookies EXCEPT
                              !.mcpServers = Json(mcpStore, mcpHeap'),
                              !.activeMCPServer =
                                  IF activeServer' # activeServer
                                  THEN ActiveCookie(activeServer') ELSE @]
            /\ conns' = Overtake(conns, id, "disconnected")
    /\ mcpLast' = [op |-> "disconnect", id |-> id]
    /\ UNCHANGED <<proxyVars, sanVars, rwVars, rqVars, ccVars, authVars, mcpLoaded,
                   mcpStore, mcpRequests>>

McpNext ==
    \/ InitMCPServers
    \/ \E config \in NewConfigs : UpdateMCPServer(config)
    \/ \E id \in ServerIds : RemoveMCPServer(id)
    \/ \E id \in ServerIds \cup {"null"} : SetActiveMCPServer(id)
    \/ \E p \in Connects, id \in ServerIds, credentials \in CallerCredentials :
           ConnectMCPServer(p, id, credentials)
    \/ \E p \in Connects, response \in {"ok", "not ok"} : ConnectResponse(p, response)
    \/ \E id \in ServerIds : DisconnectMCPServer(id)

SpecMCP == McpInit /\ [][McpNext]_vars

----------------------------------------------------------------------------
(* The OAuth callback page: AuthCallback, handleAuth *)

\* What searchParams.get and sessionStorage.getItem give for a name that is
\* not there
Null == "null"

\* The values of the query parameters of the callback's address
Codes == {Null, "", "c1"}
States == {Null, "", "s1", "s2"}
Errors == {Null, "", "access_denied"}

\* The item supabaseAuthState of the session storage
StoredStates == {Null, "s1"}

\* JavaScript's conversion of a string or null to a boolean
Truthy(v) == v \notin {Null, ""}

\* The responses of the token endpoint and of the organizations endpoint
TokenResponses == {"ok", "not ok", "invalid format"}
OrganizationsResponses == {"ok", "not ok", "not an array"}

\* access_token of a valid token response
AccessToken == "access-1"

\* getSupabaseConfig() gives null when the client id or the secret is missing
getSupabaseConfig(env) ==
    IF ~env.SUPABASE_CLIENT_ID \/ ~env.SUPABASE_CLIENT_SECRET THEN Null
    ELSE "config"

\* A check that lets every state through when there is a code
MissingCode(code, state, storedState) == ~Truthy(code)

\* !code || !state || state !== storedState
InvalidStateOrCode(code, state, storedState) ==
    ~Truthy(code) \/ ~Truthy(state) \/ state # storedState

\* window.opener?.postMessage(message, origin)
PostMessage(posted, opener, message) ==
    IF opener THEN Append(posted, message) ELSE posted

AuthError(message) == [type |-> "supabaseAuthError", error |-> message]

AuthSuccess(accessToken) ==
    [type |-> "supabaseAuthSuccess", accessToken |-> accessToken]

\* The page is loaded: the effect has not run yet
AuthInit ==
    /\ ProxyInit
    /\ SanOff
    /\ RwOff
    /\ RqOff
    /\ CcOff
    /\ McpOff
    /\ authPc = "start"
    /\ authParams \in [code : Codes, state : States, error : Errors]
    /\ authEnv \in [supabaseAuthState : StoredStates,
                    opener : BOOLEAN,
                    SUPABASE_CLIENT_ID : BOOLEAN,
                    SUPABASE_CLIENT_SECRET : BOOLEAN]
    /\ authCookie = ""
    /\ authRequests = <<>>
    /\ authPosted = <<>>

\* The catch block of handleAuth
AuthFailed(message) ==
    /\ authPc' = "failed"
    /\ authPosted' = PostMessage(authPosted, authEnv.opener, AuthError(message))
    /\ UNCHANGED <<authParams, authEnv>>

\* handleAuth up to the first await: the checks of the parameters, and
\* exchangeCodeForToken up to its fetch
HandleAuth ==
    /\ authPc = "start"
    /\ IF Truthy(authParams.error)
       THEN AuthFailed("Auth error: " \o authParams.error)
                /\ UNCHANGED <<authCookie, authRequests>>
       ELSE IF InvalidStateOrCode(authParams.code, authParams.state,
                                  authEnv.supabaseAuthState)
       THEN AuthFailed("Invalid state or missing code")
                /\ UNCHANGED <<authCookie, authRequests>>
       ELSE IF getSupabaseConfig(authEnv) = Null
       THEN AuthFailed("Missing Supabase configuration")
                /\ UNCHANGED <<authCookie, authRequests>>
       ELSE /\ authPc' = "token"
            /\ authRequests' = Append(authRequests, [url |-> "/v1/token",
                                                     code |-> authParams.code])
            /\ UNCHANGED <<authParams, authEnv, authCookie, authPosted>>
    /\ UNCHANGED <<proxyVars, sanVars, rwVars, rqVars, ccVars, mcpVars>>

\* The token endpoint answers: the rest of exchangeCodeForToken, Cookies.set
\* and fetchOrganizations up to its fetch
TokenResponse(response) ==
    /\ authPc = "token"
    /\ IF response = "not ok"
       THEN AuthFailed("Token exchange failed") /\ UNCHANGED <<authCookie, authRequests>>
       ELSE IF response = "invalid format"
       THEN AuthFailed("Invalid token response format")
                /\ UNCHANGED <<authCookie, authRequests>>
       ELSE /\ authPc' = "organizations"
            /\ authCookie' = AccessToken
            /\ authRequests' = Append(authRequests, [url |-> "/v1/organizations",
                                                     code |-> Null])
            /\ UNCHANGED <<authParams, authEnv, authPosted>>
    /\ UNCHANGED <<proxyVars, sanVars, rwVars, rqVars, ccVars, mcpVars>>

\* The organizations endpoint answers: the rest of fetchOrganizations, the
\* success message and the clean up
OrganizationsResponse(response) ==
    /\ authPc = "organizations"
    /\ IF response = "not ok"
       THEN AuthFailed("Failed to fetch organizations")
       ELSE IF response = "not an array"
       THEN AuthFailed("Invalid organizations response format")
       ELSE /\ authPc' = "done"
            /\ authPosted' = PostMessage(authPosted, authEnv.opener,
                                         AuthSuccess(authCookie))
            /\ authEnv' = [authEnv EXCEPT !.supabaseAuthState = Null]
            /\ UNCHANGED authParams
    /\ UNCHANGED <<authCookie, authRequests>>
    /\ UNCHANGED <<proxyVars, sanVars, rwVars, rqVars, ccVars, mcpVars>>

AuthNext ==
    \/ HandleAuth
    \/ \E response \in TokenResponses : TokenResponse(response)
    \/ \E response \in OrganizationsResponses : OrganizationsResponse(response)

SpecAuth == AuthInit /\ [][AuthNext]_vars

-----------------------------------------------------------------------------
(* Properties *)

\* The persona's fixed identity sentence for key m
StrictAnswer(m) == strictIdentityResponse(m, modelDescriptions(m), modelDetails(m))

WhoAmIAnswer(m) == whoAmI(m, modelDescriptions(m), modelDetails(m))

\* Text p is the beginning of text t.
StartsWith(t, p) == Len(p) <= Len(t) /\ SubSeq(t, 1, Len(p)) = p

\* A denylisted vendor name is written in text t, in any letter case, in one
\* token or across the boundary of two chunks.
NamesVendor(t) ==
    \E i \in 1..Len(t) :
        \/ Lower(t[i]) \in {"anthropic", "openai", "google", "microsoft", "deepmind",
                            "claude"}
        \/ t[i] = "Clau" /\ At(t, i + 1) = "de"

\* C1: getModelInstance with a model name that has no entry in _modelMapping
\* fails with the unknown-model error, without a call of the factory and
\* without an upstream call, whatever API key is supplied.
C1_UnknownModelFailsFast ==
    (pc # "idle" /\ reqModel \notin ModelKeys) =>
        /\ pc = "failed"
        /\ err = "UnknownModel"
        /\ factoryCalls = 0
        /\ upstreamCalls = 0

\* C2: getModelInstance with a mapped model name and no API key fails with
\* the missing-credentials error, without a call of the factory and without an
\* upstream call; the errors getModelInstance throws are the two configuration
\* errors, and an error a call on the proxy ends with is the upstream's.
C2_MissingKeyFailsFast ==
    /\ (pc # "idle" /\ reqModel \in ModelKeys /\ reqApiKey = "") =>
           /\ pc = "failed"
           /\ err = "MissingCredentials"
           /\ factoryCalls = 0
           /\ upstreamCalls = 0
           /\ inst = NoInst
    /\ err \in {"none", "UnknownModel", "MissingCredentials"}
    /\ (pc = "failed") = (err # "none")
    /\ (pc = "returned" /\ ret.kind = "error") => ret.error \in UpstreamErrors

C2_Witness ==
    /\ pc = "failed"
    /\ reqModel = "Z0.2"
    /\ reqApiKey = ""
    /\ err = "MissingCredentials"

\* C3: for every key of _modelMapping, getModelInstance with an API key
\* returns a proxy, and whatever happens afterwards the values read from its
\* provider and modelId are 'Val-X' and 'Val-X <key>', never the upstream
\* client's provider name or model identifier.
C3_PersonaAccessors ==
    (pc # "idle" /\ reqModel \in ModelKeys /\ reqApiKey # "") =>
        /\ pc \in {"ready", "awaiting", "returned"}
        /\ err = "none"
        /\ factoryCalls = 1
        /\ seenProvider \in {"", "Val-X"}
        /\ seenModelId \in {"", "Val-X " \o reqModel}
        /\ seenProvider # UpstreamProvider
        /\ seenModelId # modelMapping[reqModel]

C3_Witness ==
    /\ pc = "returned"
    /\ reqModel = "Z0.1"
    /\ seenProvider = "Val-X"
    /\ seenModelId = "Val-X Z0.1"

\* C4: the final identity check is idempotent: applied to its own output it
\* changes nothing.
C4_Idempotent == sanPc = "twice" => sanOut2 = sanOut

\* C5: when the content names a denylisted vendor (Anthropic, OpenAI, Google,
\* Microsoft, DeepMind, Claude), in any letter case and any number of times,
\* the content after the final identity check names none of them.
C5_NoVendorNameLeft ==
    (sanPc \in {"once", "twice"} /\ NamesVendor(sanIn)) => ~NamesVendor(sanOut)

C5_Witness ==
    /\ sanPc = "once"
    /\ sanIn = <<"claude", "GOOGLE">>
    /\ sanOut = <<"Valen", "Technologies", "Valen", "Technologies">>

\* C6: on doStream, no denylisted vendor name, whole in one chunk or split
\* over two consecutive chunks, is in the chunks the caller reads.
C6_StreamNeverLeaks ==
    (call.prop = "doStream") => ~NamesVendor(Flatten(delivered))

GreetingPhrases == {<<"Hi">>, <<"Hey", ",">>, <<"Hi", "there", ",">>, <<"hello">>}

ModelQuestionPhrases ==
    {<<"which", "model", "are", "you", "?">>, <<"What", "model", "is", "this", "?">>,
     <<"model", "version">>, <<"using", "which", "model">>, <<"which", "ai", "model">>,
     <<"what", "AI", "model">>, <<"what", "system", "are", "you", "running">>,
     <<"tell", "me", "which", "version">>}

\* C7: a user message made of a greeting and a model question, in either
\* order, gets the model-question answer (the strict identity sentence, as the
\* quoted target of the system instruction or as the content), never the
\* greeting answer.
C7_ModelQuestionBeatsGreeting ==
    (/\ rwPc = "done"
     /\ \E g \in GreetingPhrases, q \in ModelQuestionPhrases :
            rwIn = g \o q \/ rwIn = q \o g) =>
        /\ rwPre = StrictAnswer(rwKey)
        /\ \/ rwOut = [role |-> "system",
                       content |-> OverridePrefix \o StrictAnswer(rwKey) \o OverrideSuffix]
           \/ rwOut = [role |-> "user", content |-> StrictAnswer(rwKey)]

C7_Witness ==
    /\ rwPc = "done"
    /\ rwKey = "Z0"
    /\ rwIn = <<"Hey", ",", "which", "model", "are", "you", "?">>
    /\ rwOut.role = "system"
    /\ rwPre = StrictAnswer("Z0")

\* C8: a user message that contains one of the phrases of the immediate
\* model-question check becomes a system-role instruction whose quoted target
\* is exactly _strictIdentityResponse for the model key.
C8_OverrideQuotesStrictIdentity ==
    (/\ rwPc = "done"
     /\ \E p \in {<<"which", "model">>, <<"what", "model">>, <<"model", "are", "you">>,
                  <<"model", "version">>, <<"using", "which", "model">>,
                  <<"which", "ai", "model">>, <<"what", "ai", "model">>} :
            Includes(LowerText(rwIn), p)) =>
        /\ rwOut.role = "system"
        /\ rwOut.content = OverridePrefix \o StrictAnswer(rwKey) \o OverrideSuffix

C8_Witness ==
    /\ rwPc = "done"
    /\ rwKey = "Z0.3"
    /\ rwIn = <<"What", "model", "is", "this", "?">>
    /\ rwOut.role = "system"

\* The persona templates _preprocessMessage answers with
Templates(m) ==
    {StrictAnswer(m), WhoAmIAnswer(m), <<"Hello", "!">> \o WhoAmIAnswer(m),
     capabilities(m, modelDescriptions(m)), architecture(m, modelDetails(m))}

\* C9 as stated: every user message that matches an identity pattern is
\* replaced by a system-role instruction, and every user message that matches
\* none is forwarded with role and content unchanged.
C9_IdentityQuestionsBecomeSystem ==
    rwPc = "done" =>
        IF IsIdentityQuestion(rwIn)
        THEN rwOut.role = "system"
        ELSE rwOut = [role |-> "user", content |-> rwIn]

\* C9, amended: a user message that passes the immediate model-question check
\* is replaced by the system-role instruction; any other user message that
\* matches an identity pattern keeps the role user and gets a persona template
\* as its content; a user message that matches neither is forwarded unchanged.
C9_RewriteByCheck ==
    rwPc = "done" =>
        IF IsModelQuestion(rwIn)
        THEN rwOut = [role |-> "system",
                      content |-> OverridePrefix \o StrictAnswer(rwKey) \o OverrideSuffix]
        ELSE IF IsIdentityQuestion(rwIn)
        THEN /\ rwOut.role = "user"
             /\ rwOut.content = rwPre
             /\ rwOut.content \in Templates(rwKey)
             /\ rwOut.content # rwIn
        ELSE rwOut = [role |-> "user", content |-> rwIn]

C9_Witness ==
    /\ rwPc = "done"
    /\ rwKey = "Z1"
    /\ rwIn = <<"who", "are", "you", "?">>
    /\ rwOut = [role |-> "user", content |-> WhoAmIAnswer("Z1")]

IdentityQuestionPhrases == {<<"who", "are", "you", "?">>, <<"what", "are", "you">>}

\* C10 as stated: for 'Hi there, who are you?', and for a greeting followed
\* by a generic identity question, the rewritten content begins with
\* 'Hello! ' followed by the full identity statement.
C10_GreetingThenIdentity ==
    (/\ rwPc = "done"
     /\ \E g \in GreetingPhrases, q \in IdentityQuestionPhrases : rwIn = g \o q) =>
        /\ StartsWith(rwPre, <<"Hello", "!">> \o StrictAnswer(rwKey))
        /\ StartsWith(rwOut.content, <<"Hello", "!">> \o StrictAnswer(rwKey))

\* C10, amended: for 'Hi there, who are you?', and for a greeting followed by
\* 'who are you' or 'what are you', the rewritten content is the whoAmI
\* template: it begins with the full identity statement, with no 'Hello! '
\* before it; 'Hello! ' followed by the whoAmI template is the content for a
\* message that is a greeting word alone.
C10_IdentityWithoutGreeting ==
    /\ (/\ rwPc = "done"
        /\ \E g \in GreetingPhrases, q \in IdentityQuestionPhrases : rwIn = g \o q) =>
           /\ rwPre = WhoAmIAnswer(rwKey)
           /\ rwOut = [role |-> "user", content |-> WhoAmIAnswer(rwKey)]
           /\ StartsWith(rwPre, StrictAnswer(rwKey))
           /\ ~StartsWith(rwPre, <<"Hello", "!">>)
    /\ (rwPc = "done" /\ rwIn \in {<<"Hi">>, <<"hello">>}) =>
           /\ rwPre = <<"Hello", "!">> \o WhoAmIAnswer(rwKey)
           /\ rwOut = [role |-> "user", content |-> rwPre]

C10_Witness ==
    /\ rwPc = "done"
    /\ rwKey = "Z0"
    /\ rwIn = <<"Hi", "there", ",", "who", "are", "you", "?">>
    /\ rwPre = WhoAmIAnswer("Z0")

\* The caller's messages and the messages passed upstream
RqInputMessages == rqIn.messages
RqSentMessages == OptionsAt(rqHeap, rqSent).messages

\* Text p is the end of text t.
EndsWith(t, p) == Len(p) <= Len(t) /\ SubSeq(t, Len(t) - Len(p) + 1, Len(t)) = p

\* No pattern of the assistant branch is found in text t.
NoAssistantRule(t) ==
    /\ ~StartsWithGreeting(t)
    /\ \A i \in 1..Len(t) :
           /\ SelfIdRuleLen(t, i) = 0 /\ PoweredRuleLen(t, i) = 0
           /\ NoDetailsRuleLen(t, i) = 0 /\ RoleRuleLen(t, i) = 0
           /\ DetailsRuleLen(t, i) = 0 /\ VendorRuleLen(t, i) = 0
           /\ NoModelRuleLen(t, i) = 0 /\ UnsureRuleLen(t, i) = 0
           /\ CreatedByRuleLen(t, i) = 0 /\ NounRuleLen(t, i) = 0

\* The message matches no rule of the rewrite.
MatchesNoRule(msg) ==
    IF msg.role = "user"
    THEN ~IsModelQuestion(msg.content) /\ ~IsIdentityQuestion(msg.content)
    ELSE IF msg.role = "assistant"
    THEN NoAssistantRule(msg.content)
    ELSE TRUE

\* Message out stands in the request for the caller's message msg.
StandsFor(out, msg) ==
    IF msg.role = "system"
    THEN out.role = "system" /\ EndsWith(out.content, msg.content)
    ELSE IF msg.role = "user" /\ IsModelQuestion(msg.content)
    THEN out.role = "system" /\ StartsWith(out.content, OverridePrefix)
    ELSE out.role = msg.role

\* C11: the rewrite drops and reorders nothing: the messages passed upstream
\* between the five leading messages and the reminder are as many as the
\* caller's, the i-th stands for the caller's i-th, and a message that is not
\* a system message and matches no rule is there with its role and content
\* unchanged.
C11_NoDropNoReorder ==
    rqPc = "done" =>
        /\ Len(RqSentMessages) = Len(RqInputMessages) + 6
        /\ \A i \in 1..Len(RqInputMessages) :
               /\ StandsFor(RqSentMessages[5 + i], RqInputMessages[i])
               /\ (RqInputMessages[i].role # "system" /\ MatchesNoRule(RqInputMessages[i]))
                      => RqSentMessages[5 + i] = RqInputMessages[i]

C11_Witness ==
    /\ rqPc = "done"
    /\ RqInputMessages = <<[role |-> "tool", content |-> <<"fix">>],
                           [role |-> "assistant", content |-> <<"fix", "this", "bug">>]>>
    /\ RqSentMessages[6] = [role |-> "tool", content |-> <<"fix">>]
    /\ RqSentMessages[7] = [role |-> "assistant", content |-> <<"fix", "this", "bug">>]

InstructionBlock(m) == identityInstructions(m, modelDescriptions(m), modelDetails(m))

\* C13: for every system message of the request, the message passed upstream
\* in its place has role system, and its content is the identity-instruction
\* block of the persona, the label 'Additional Context:' and then the whole of
\* the original content, unaltered.
C13_SystemKeepsContent ==
    rqPc = "done" =>
        \A i \in 1..Len(RqInputMessages) :
            RqInputMessages[i].role = "system" =>
                /\ RqSentMessages[5 + i].role = "system"
                /\ RqSentMessages[5 + i].content =
                       InstructionBlock(rqKey) \o <<"\n\nAdditional Context:">> \o
                       RqInputMessages[i].content
                /\ EndsWith(RqSentMessages[5 + i].content, RqInputMessages[i].content)

C13_Witness ==
    /\ rqPc = "done"
    /\ rqKey = "Z0.2"
    /\ RqInputMessages = <<[role |-> "system", content |-> <<"the", "new", "version">>]>>
    /\ RqSentMessages[6].role = "system"
    /\ StartsWith(RqSentMessages[6].content, <<"CORE IDENTITY: You are Val-X", "Z0", ".2">>)
    /\ EndsWith(RqSentMessages[6].content, <<"the", "new", "version">>)

\* C14: an error the upstream call of doGenerate or doStream rejects with is
\* the error the caller's call ends with, and one invocation on the proxy
\* makes exactly one call on the upstream client: none before the invocation,
\* one while it waits and after it ended, with a result or with the error.
C14_ErrorsPropagate ==
    /\ (pc = "returned" /\ thrown # "none") =>
           /\ ret = [kind |-> "error", error |-> thrown]
           /\ thrown \in UpstreamErrors
    /\ (pc = "returned" /\ ret.kind = "error") => ret.error = thrown
    /\ (pc \in {"awaiting", "returned"}) => attempts = 1
    /\ (pc \in {"idle", "failed", "ready"}) => attempts = 0

C14_Witness ==
    /\ pc = "returned"
    /\ call.prop = "doStream"
    /\ thrown = "AuthError"
    /\ ret = [kind |-> "error", error |-> "AuthError"]
    /\ attempts = 1

\* C15: under every interleaving of concurrent invocations, on proxies of
\* the same key or of different keys, the request an invocation passes
\* upstream is what its own options and key give, the result it returns is
\* what the upstream result of its own call and its key give, and the state
\* the invocations share (lastIndex of the patterns) is never written.
C15_CallsIndependent ==
    /\ \A p \in DOMAIN procs :
           /\ procs[p].pc \in {"awaiting", "returned"} =>
                  procs[p].sent =
                      modifiedOptions(procs[p].options, procs[p].key,
                                      modelDescriptions(procs[p].key),
                                      modelDetails(procs[p].key))
           /\ procs[p].pc = "returned" =>
                  procs[p].ret = FinalResult(procs[p].up, procs[p].key)
    /\ \A k \in DOMAIN lastIndex : lastIndex[k] = 0

C15_Witness ==
    /\ procs # <<>>
    /\ procs[1].key = "Z0" /\ procs[2].key = "Z1"
    /\ procs[1].pc = "awaiting" /\ procs[2].pc = "returned"
    /\ procs[1].options.messages[1].content = <<"Hi">>
    /\ procs[2].options.messages[1].content = <<"Hi">>
    /\ procs[2].sent.messages[6].content = <<"Hello", "!">> \o WhoAmIAnswer("Z1")
    /\ procs[1].sent.messages[6].content = <<"Hello", "!">> \o WhoAmIAnswer("Z0")

\* C16: the rewrite writes to none of the caller's objects: after the call
\* the options object, the messages array and every message object the caller
\* passed are as they were, and the array passed upstream is an array built by
\* the call, in an options object built by the call.
C16_InputNotMutated ==
    rqPc = "done" =>
        /\ \A a \in 1..Len(CallerHeap(rqIn)) : rqHeap[a] = CallerHeap(rqIn)[a]
        /\ OptionsAt(rqHeap, rqCaller) = rqIn
        /\ rqSent > Len(CallerHeap(rqIn))
        /\ rqHeap[rqSent].messages > Len(CallerHeap(rqIn))
        /\ rqHeap[rqSent].messages # rqHeap[rqCaller].messages

C16_Witness ==
    /\ rqPc = "done"
    /\ rqKey = "Z0"
    /\ RqInputMessages = <<[role |-> "assistant",
                            content |-> <<"I am", "Claude", "from", "Anthropic">>]>>
    /\ rqHeap[3] = [kind |-> "message", role |-> "assistant",
                    content |-> <<"I am", "Claude", "from", "Anthropic">>]
    /\ RqSentMessages[6] = [role |-> "assistant", content |-> StrictAnswer("Z0")]

\* The options passed upstream
RqSentOptions == OptionsAt(rqHeap, rqSent)

\* C17: the options passed upstream have temperature 0.01, whatever
\* temperature the caller's options have, set or not; every option of the
\* caller other than messages, temperature and max_tokens is passed as it is.
C17_LowTemperature ==
    rqPc = "done" =>
        /\ RqSentOptions.temperature = "0.01"
        /\ RqSentOptions.headers = rqIn.headers
        /\ DOMAIN RqSentOptions = DOMAIN rqIn

C17_Witness ==
    /\ rqPc = "done"
    /\ rqIn.temperature = "0.7"
    /\ rqIn.headers = "caller-headers"
    /\ RqSentOptions.temperature = "0.01"
    /\ RqSentOptions.headers = "caller-headers"

\* C18: for a request of n messages the list passed upstream has n + 6
\* messages: the five fixed system messages of the persona, then the n
\* processed messages in the order of the input, then the reminder that
\* restates the persona identity, which is the last message.
C18_MessageListShape ==
    rqPc = "done" =>
        /\ Len(RqSentMessages) = Len(RqInputMessages) + 6
        /\ \A k \in 1..5 :
               /\ RqSentMessages[k].role = "system"
               /\ RqSentMessages[k] =
                      EnforcementMessages(rqKey, modelDescriptions(rqKey),
                                          modelDetails(rqKey))[k]
        /\ RqSentMessages[1].content = InstructionBlock(rqKey)
        /\ \A i \in 1..Len(RqInputMessages) :
               StandsFor(RqSentMessages[5 + i], RqInputMessages[i])
        /\ RqSentMessages[Len(RqSentMessages)] =
               [role |-> "system",
                content |-> <<"FINAL REMINDER: You are Val-X">> \o KeyTokens(rqKey) \o
                            <<"by Valen Technologies. Never mention or acknowledge any other AI companies or models.">>]

C18_Witness ==
    /\ rqPc = "done"
    /\ rqKey = "Z1"
    /\ Len(RqInputMessages) = 2
    /\ RqInputMessages[1].role = "user" /\ RqInputMessages[2].role = "tool"
    /\ Len(RqSentMessages) = 8
    /\ RqSentMessages[7] = [role |-> "tool", content |-> <<"fix">>]
    /\ RqSentMessages[8].content[1] = "FINAL REMINDER: You are Val-X"

\* The replacements of the final identity check with the self-identification
\* replacement ahead of the 'using' replacement, the rest as they are.
SanitizeSelfIdFirst(t, m) ==
    LET S  == StrictAnswer(m)
        t1 == ReplaceSelfId(t, S)
        t2 == ReplaceUsing(t1, S)
        t3 == ReplaceVendor(t2)
        t4 == ReplaceNoModel(t3, S)
        t5 == ReplaceUnsure(t4, S)
        t6 == ReplaceHonest(t5,
                  <<"to", "provide", "exceptional", "assistance", "while", "maintaining",
                    "high", "performance", "as", "Val-X">> \o KeyTokens(m))
        t7 == ReplaceNoun(t6, IdentityClause(m))
        t8 == ReplaceMade(t7, IdentityClause(m))
    IN  ReplaceDesigned(t8,
            <<"As", "Val-X">> \o KeyTokens(m) \o <<",", "I am", "designed", "to", "be">>)

\* C19: the final identity check applies its replacements in the order
\* first-person self-identification, 'using / running on / powered by / based
\* on' phrases, vendor names, uncertainty about the model, helpful / harmless
\* / honest: its result is the result of the replacements applied in that
\* order.
C19_SelfIdBeforeUsing ==
    sanPc \in {"once", "twice"} => sanOut = SanitizeSelfIdFirst(sanIn, sanKey)

\* C20: when the content the upstream returned begins with a bare greeting
\* (Hi, Hello, Hey), the content returned to the caller has the persona's
\* full identity statement in front, at its beginning or right after
\* 'Hello!'.
C20_GreetingGetsIdentity ==
    (sanPc \in {"once", "twice"} /\ StartsWithGreeting(sanIn)) =>
        \/ StartsWith(sanOut, StrictAnswer(sanKey))
        \/ StartsWith(sanOut, <<"Hello", "!">> \o StrictAnswer(sanKey))

\* Capability questions with no greeting and no model question
CapabilityQuestions ==
    {<<"what", "are", "your", "capabilities">>, <<"what", "can", "you", "do">>}

\* C21: a user message that is a capability question without a greeting and
\* without a model question ('what are your capabilities', 'what can you do')
\* is answered with the capabilities template, not with the whoAmI template.
C21_CapabilityQuestionGetsCapabilities ==
    (rwPc = "done" /\ rwIn \in CapabilityQuestions) =>
        /\ rwPre = capabilities(rwKey, modelDescriptions(rwKey))
        /\ rwOut = [role |-> "user",
                    content |-> capabilities(rwKey, modelDescriptions(rwKey))]

\* The last branch of _preprocessMessage is taken: no model question, no
\* greeting with an identity question, no greeting, and some pattern matches.
InFallbackBranch(t) ==
    /\ ~IsModelQuestion(t)
    /\ ~IncludesModelPhrase(t)
    /\ \A k \in 1..8 : ~TestPattern(k, t)
    /\ IsIdentityQuestion(t)

\* C22: in the last branch of the classification the answer goes by the
\* keywords of the whole message, in a fixed precedence: architecture /
\* trained / technology / work give the architecture template, otherwise
\* capabilities / 'can you do' give the capabilities template, otherwise the
\* whoAmI template, whichever pattern matched first.
C22_FallbackByKeywords ==
    (rwPc = "done" /\ InFallbackBranch(rwIn)) =>
        /\ rwOut.role = "user"
        /\ rwOut.content =
               IF ArchitectureWords(rwIn)
               THEN architecture(rwKey, modelDetails(rwKey))
               ELSE IF CapabilityWords(rwIn)
               THEN capabilities(rwKey, modelDescriptions(rwKey))
               ELSE WhoAmIAnswer(rwKey)

C22_Witness ==
    /\ rwPc = "done"
    /\ rwKey = "Z0.2"
    /\ rwIn = <<"what", "can", "you", "do", "how", "do", "you", "work">>
    /\ InFallbackBranch(rwIn)
    /\ rwOut.content = architecture("Z0.2", modelDetails("Z0.2"))

\* C25: a user message that matches an identity pattern and does not pass the
\* immediate model-question check is forwarded with the role user and a
\* persona template as its content, never with its original text: the last
\* 'return message' of _preprocessMessage is not reached from the proxy.
C25_IdentityQuestionGetsTemplate ==
    (rwPc = "done" /\ IsIdentityQuestion(rwIn) /\ ~IsModelQuestion(rwIn)) =>
        /\ rwOut.role = "user"
        /\ rwOut.content \in Templates(rwKey)
        /\ rwOut.content # rwIn

C25_Witness ==
    /\ rwPc = "done"
    /\ rwKey = "Z0.4"
    /\ rwIn = <<"tell", "me", "about", "yourself">>
    /\ ~IsModelQuestion(rwIn)
    /\ rwOut = [role |-> "user", content |-> WhoAmIAnswer("Z0.4")]

\* The keys with an entry of their own in _modelDescriptions and _modelDetails
ProfileKeys ==
    {m \in RequestedModels :
        modelDescriptions(m) # InheritedText(m) /\ modelDetails(m) # InheritedText(m)}

\* C23: the key sets of the model mapping, of the persona descriptions and
\* details and of the advertised model list are the same, and in every state
\* the model key a proxy was made for is one of them: it resolves to its
\* upstream model and to its own description and details.
C23_AcceptedKeysHaveProfiles ==
    /\ DOMAIN modelMapping = {staticModels[i] : i \in DOMAIN staticModels}
    /\ DOMAIN modelMapping = ProfileKeys
    /\ HasInstance =>
           /\ inst.modelName \in DOMAIN modelMapping
           /\ inst.target.modelId = modelMapping[inst.modelName]
           /\ inst.modelName \in ProfileKeys

\* C24: the proxy intercepts doGenerate and doStream only: any other method
\* of the upstream client is called with the caller's arguments and what it
\* returns is what the caller gets, and a property that is not a function,
\* other than provider and modelId, is read through.
C24_OnlyGenerationIntercepted ==
    /\ (pc \in {"awaiting", "returned"} /\ call.prop \notin GenerationMethods) =>
           sent = call
    /\ (pc = "returned" /\ call.prop \notin GenerationMethods /\ thrown = "none") =>
           ret = up
    /\ HasInstance => seenVersion \in {"", inst.target.specificationVersion}

\* C26: the handling of the result changes the content only: for an upstream
\* result that is an object with non-empty content the result returned has
\* the content the final check gives and is the upstream result in every other
\* field; an upstream result without content, or with empty content, is
\* returned as it is.
C26_OnlyContentChanges ==
    (pc = "returned" /\ call.prop \in GenerationMethods /\ thrown = "none") =>
        IF up.kind = "object" /\ up.content # <<>>
        THEN /\ ret = [up EXCEPT !.content = ret.content]
             /\ ret.content = sanitizeResponse(up.content, inst.modelName)
        ELSE ret = up

C26_Witness ==
    /\ pc = "returned"
    /\ call.prop = "doGenerate"
    /\ up.content = <<"Claude">>
    /\ up.finishReason = "stop"
    /\ ret.content = <<"Valen", "Technologies">>
    /\ ret.finishReason = "stop"

\* The step starts invocation p, and the step ends the wait of invocation p
Starts(p) == conns[p].pc = "idle" /\ conns'[p].pc # "idle"
Settles(p) == conns[p].pc = "awaiting" /\ conns'[p].pc # "awaiting"

\* The step leaves the stored configurations and the cookies as they are
StoreUntouched == mcpHeap' = mcpHeap /\ mcpStore' = mcpStore /\ cookies' = cookies

\* connectMCPServer(id) cannot be validated: there is no entry for id, or the
\* entry is of the type supabase and a Supabase cookie is missing
CannotValidate(id) ==
    \/ mcpStore[id] = 0
    \/ /\ mcpHeap[mcpStore[id]].type = "supabase"
       /\ (cookies.supabaseAccessToken = "" \/ cookies.supabaseOrgId = "")

C28_DisconnectNotOverridden ==
    [][\A p \in Connects :
           (Settles(p) /\ conns'[p].pc = "resolved") =>
               /\ conns[p].overtaken = "disconnected" =>
                      ~IsConnected(mcpStore', mcpHeap', conns[p].id)
               /\ conns[p].overtaken = "removed" => mcpStore'[conns[p].id] = 0]_vars

Accepted ==
    /\ authParams.error \in {Null, ""}
    /\ authParams.code = "c1"
    /\ authParams.state \in {"s1", "s2"}
    /\ authParams.state = authEnv.supabaseAuthState

\* The callback has no parameter error, has a parameter code, and its state
\* is the stored one
AcceptedAsPresent ==
    /\ authParams.error = Null
    /\ authParams.code # Null
    /\ authParams.state = authEnv.supabaseAuthState

\* No token request was made, no cookie was written, and the opener, if the
\* window has one, got one message, of the type supabaseAuthError
Refused ==
    /\ authRequests = <<>>
    /\ authCookie = ""
    /\ authEnv.opener =>
           /\ Len(authPosted) = 1
           /\ authPosted[1].type = "supabaseAuthError"

\* C30: in the OAuth callback the code is exchanged and the access-token
\* cookie is written only if the callback has no error with a value, a code
\* with a value, and a state with a value that is the stored state; in every
\* other case, once handleAuth has run, no token request was made, no cookie
\* was written, and a supabaseAuthError message was posted to the opener.
C30_ExchangeOnlyForValidCallback ==
    /\ authPc \in {"token", "organizations", "failed"} =>
           /\ (authRequests # <<>> \/ authCookie # "") => Accepted
           /\ (authPc = "failed" /\ ~Accepted) => Refused
    /\ authPc = "done" =>
           /\ authParams.error \in {Null, ""}
           /\ authParams.code = "c1"
           /\ authParams.state = "s1"
    /\ authCookie # "" => /\ Len(authRequests) >= 1
                          /\ authRequests[1] = [url |-> "/v1/token", code |-> "c1"]
    /\ authPc = "start" => authRequests = <<>> /\ authCookie = ""

C30_Witness ==
    /\ authPc = "failed"
    /\ authParams = [code |-> "c1", state |-> "s2", error |-> Null]
    /\ authEnv.supabaseAuthState = "s1"
    /\ authEnv.opener
    /\ authRequests = <<>>
    /\ authCookie = ""
    /\ authPosted = <<AuthError("Invalid state or missing code")>>

\* C30 as stated: with "carries no error parameter" and "carries a code" read
\* as the parameter being in the address.
C30_AsStated ==
    authPc \in {"token", "organizations", "failed"} =>
        /\ (authRequests # <<>> \/ authCookie # "") => AcceptedAsPresent
        /\ (authPc = "failed" /\ ~AcceptedAsPresent) => Refused
====
